---- MODULE Spec2Model ----
(***************************************************************************)
(* A model of lucal.  The rendering engine: the text-width measurement     *)
(* (package textwidth), the month table with its colour annotation         *)
(* (package render) and the block composer, under the specification Spec.  *)
(* The program around it: the calendar service (package calendar), the     *)
(* holiday data (package holidays), the command line (cmd/lucal), the      *)
(* plain renderer and the interactive session (package tui), under the     *)
(* specification AppSpec.                                                  *)
(*                                                                         *)
(* Text is a sequence of Unicode code points (naturals).  Go strings are   *)
(* byte strings; the model covers valid UTF-8 only, where ranging over a   *)
(* string, the regexp engine and the GBK encoder all see the same code     *)
(* points.                                                                 *)
(***************************************************************************)
EXTENDS Integers, Sequences, FiniteSets, TLC

\* noColorMode: the package flag of render, set by SetNoColor.
\* call:        the call in progress or last returned, with its arguments
\*              and, where it renders lipgloss styles, whether the
\*              terminal's colour profile makes lipgloss write colours.
\* ret:         the text or the blocks that call returned.
\* maxWidth:    the column count StringWidth returned.
\* locals:      rows, colWidth, tableView before and after applyColors, and
\*              highlights, of the buildMonthBlock that BuildBlocks ran last.
\* svcRet:      the views and the error that the calendar service returned.
\* model:       the model of the interactive session (package tui).
\* stdout:      the text the program has written.
VARIABLES noColorMode, call, ret, maxWidth, locals, svcRet, model, stdout, earlier, dl

appVars == <<svcRet, model, stdout, earlier, dl>>

vars == <<noColorMode, call, ret, maxWidth, locals, svcRet, model, stdout, earlier, dl>>

----------------------------------------------------------------------------
(* Code points *)

TAB == 9
NL == 10
FF == 12
CR == 13
ESC == 27
SP == 32
SEMI == 59
LBRACKET == 91
LOWER_A == 97
LOWER_M == 109
DIGIT0 == 48
DIGIT9 == 57
MaxASCII == 127
RuneSelf == 128
EURO == 8364
ZHONG == 20013

Digit(n) == DIGIT0 + n

\* The class \s of Go's regexp (RE2): [\t\n\f\r ].
WhiteSpace == {TAB, NL, FF, CR, SP}

Max(a, b) == IF a >= b THEN a ELSE b

----------------------------------------------------------------------------
(* Small sequence helpers *)

Repeat(c, n) == [i \in 1..n |-> c]

\* The positions of s holding c.
Positions(s, c) == {i \in 1..Len(s) : s[i] = c}

RECURSIVE SortedSeq(_)
\* The elements of a finite set of integers in ascending order.
SortedSeq(S) ==
    IF S = {} THEN <<>>
    ELSE LET m == CHOOSE x \in S : \A y \in S : x <= y
         IN <<m>> \o SortedSeq(S \ {m})

\* strings.Split(s, "\n"): the lines of s; a text without line break is one
\* line, the empty text is one empty line.
SplitLines(s) ==
    LET nl == SortedSeq(Positions(s, NL))
        n  == Len(nl)
        from(k) == IF k = 1 THEN 1 ELSE nl[k - 1] + 1
        to(k)   == IF k = n + 1 THEN Len(s) ELSE nl[k] - 1
    IN [k \in 1..(n + 1) |-> SubSeq(s, from(k), to(k))]

RECURSIVE JoinFrom(_, _, _)
JoinFrom(lines, k, sep) ==
    IF k > Len(lines) THEN <<>>
    ELSE IF k = Len(lines) THEN lines[k]
    ELSE LET mid == (k + Len(lines)) \div 2
         IN JoinFrom(SubSeq(lines, 1, mid), k, sep) \o sep \o JoinFrom(lines, mid + 1, sep)

\* strings.Join(lines, sep)
Join(lines, sep) == JoinFrom(lines, 1, sep)

\* Whether pat occurs in s at position i.
OccursAt(s, pat, i) ==
    /\ i >= 1
    /\ i + Len(pat) - 1 <= Len(s)
    /\ \A k \in 1..Len(pat) : s[i + k - 1] = pat[k]

----------------------------------------------------------------------------
(* package textwidth *)

\* The characters [0-9;] of ansiRegexp.
AnsiParam(c) == (c >= DIGIT0 /\ c <= DIGIT9) \/ c = SEMI

RECURSIVE AnsiParamEnd(_, _)
\* The first position at or after j that holds no [0-9;] (Len(s)+1 if none).
AnsiParamEnd(s, j) ==
    IF j > Len(s) \/ ~AnsiParam(s[j]) THEN j ELSE AnsiParamEnd(s, j + 1)

\* ansiRegexp = \x1b\[[0-9;]*m matched at position i: the position of the
\* closing m, or 0 when there is no match at i.  [0-9;]* is greedy and m is
\* not in the class, so the run of parameters is the maximal one.
AnsiMatchEnd(s, i) ==
    IF i + 2 <= Len(s) /\ s[i] = ESC /\ s[i + 1] = LBRACKET
    THEN LET j == AnsiParamEnd(s, i + 2)
         IN IF j <= Len(s) /\ s[j] = LOWER_M THEN j ELSE 0
    ELSE 0

\* The starts of all matches of ansiRegexp in s.  A match holds exactly one
\* ESC, its first character, so no two matches overlap and the leftmost
\* non-overlapping matches of ReplaceAllString are all of them.
AnsiMatches(s) == {i \in Positions(s, ESC) : AnsiMatchEnd(s, i) # 0}

RECURSIVE StripFrom(_, _, _)
StripFrom(s, pos, starts) ==
    IF starts = <<>> THEN SubSeq(s, pos, Len(s))
    ELSE LET i == Head(starts)
         IN SubSeq(s, pos, i - 1)
              \o StripFrom(s, AnsiMatchEnd(s, i) + 1, Tail(starts))

\* ansiRegexp.ReplaceAllString(s, "")
stripANSI(s) == StripFrom(s, 1, SortedSeq(AnsiMatches(s)))

\* Latin-1 letters and signs that GBK holds (as two bytes).
Latin1InGBK == {164, 167, 168, 176, 177, 183, 215, 224, 225, 232, 233, 234,
                236, 237, 242, 243, 247, 249, 250, 252}

\* The number of bytes simplifiedchinese.GBK's encoder writes for code point
\* c, 0 when it rejects c: one byte for ASCII (and for the euro sign, Code
\* Page 936's 0x80), two bytes for the ideographs, the box-drawing
\* characters and the few Latin-1 characters of GBK.
gbkBytes(c) ==
    IF c < RuneSelf THEN 1
    ELSE IF c = EURO THEN 1
    ELSE IF (c >= 19968 /\ c <= 40869) \/ (c >= 9472 /\ c <= 9547)
            \/ (c >= 9552 /\ c <= 9587) \/ c \in Latin1InGBK THEN 2
    ELSE 0

\* fallbackWidth with the whole Latin-1 range counted as narrow.
fallbackWidthLatin1(s) ==
    Cardinality({i \in 1..Len(s) : s[i] # NL /\ s[i] # CR /\ s[i] <= 255})
    + 2 * Cardinality({i \in 1..Len(s) : s[i] > 255})

\* fallbackWidth: line breaks and carriage returns count 0, ASCII 1, every
\* other code point 2.
fallbackWidth(s) ==
    Cardinality({i \in 1..Len(s) : s[i] # NL /\ s[i] # CR /\ s[i] <= MaxASCII})
    + 2 * Cardinality({i \in 1..Len(s) : s[i] > MaxASCII})

\* lineWidth without the call of stripANSI.
lineWidthNoStrip(s) ==
    IF s = <<>> THEN 0
    ELSE IF \E i \in 1..Len(s) : gbkBytes(s[i]) = 0
         THEN fallbackWidth(s)
         ELSE Cardinality({i \in 1..Len(s) : gbkBytes(s[i]) = 1})
              + 2 * Cardinality({i \in 1..Len(s) : gbkBytes(s[i]) = 2})

\* lineWidth: the byte length of the GBK encoding of the line without its
\* control sequences, or fallbackWidth of it when the encoder fails.
lineWidth(s) ==
    IF s = <<>> THEN 0
    ELSE LET clean == stripANSI(s)
         IN IF \E i \in 1..Len(clean) : gbkBytes(clean[i]) = 0
            THEN fallbackWidth(clean)
            ELSE Cardinality({i \in 1..Len(clean) : gbkBytes(clean[i]) = 1})
                 + 2 * Cardinality({i \in 1..Len(clean) : gbkBytes(clean[i]) = 2})

RECURSIVE MaxOver(_, _)
MaxOver(ws, k) ==
    IF k > Len(ws) THEN 0 ELSE Max(ws[k], MaxOver(ws, k + 1))

\* StringWidth: the largest lineWidth over the lines of s.
StringWidth(s) ==
    IF s = <<>> THEN 0
    ELSE LET lines == SplitLines(s)
         IN MaxOver([k \in 1..Len(lines) |-> lineWidth(lines[k])], 1)

\* PadRight: diff spaces appended at the end of s when diff > 0.
PadRight(s, width) ==
    LET diff == width - StringWidth(s)
    IN IF diff <= 0 THEN s ELSE s \o Repeat(SP, diff)

----------------------------------------------------------------------------
(* package render: cells and rows *)

cellPadding == 1

BAR == 9474
BOX_H == 9472
BOX_TL == 9581
BOX_TR == 9582
BOX_BR == 9583
BOX_BL == 9584

\* weekdays = 日 一 二 三 四 五 六
weekdays == <<26085, 19968, 20108, 19977, 22235, 20116, 20845>>

\* fmt.Sprintf("%d", n) for 0 <= n <= 99
DayStr(n) == IF n < 10 THEN <<Digit(n)>> ELSE <<Digit(n \div 10), Digit(n % 10)>>

\* fmt.Sprintf("%2d", n) for 0 <= n <= 99
DayStr2(n) == IF n < 10 THEN <<SP, Digit(n)>> ELSE DayStr(n)

FIRST_DAY_ALIAS == <<21021, 19968>>

\* The label with the name of the lunar month before the solar term.
SecondaryLabelMonthFirst(d) ==
    IF d.LunarDayAlias = FIRST_DAY_ALIAS /\ d.LunarMonthAlias # <<>>
    THEN d.LunarMonthAlias
    ELSE IF d.SolarTerm # <<>> THEN d.SolarTerm
    ELSE d.LunarDayAlias

\* Day.SecondaryLabel: the solar term, else the lunar month name on the
\* first day (初一) of a lunar month, else the lunar day name.
SecondaryLabel(d) ==
    IF d.SolarTerm # <<>> THEN d.SolarTerm
    ELSE IF d.LunarDayAlias = FIRST_DAY_ALIAS /\ d.LunarMonthAlias # <<>>
         THEN d.LunarMonthAlias
    ELSE d.LunarDayAlias

renderGregorianCell(day) == IF ~day.InMonth THEN <<>> ELSE DayStr2(day.Day)

renderLunarCell(day) ==
    IF ~day.InMonth THEN <<>>
    ELSE LET label == SecondaryLabel(day)
         IN IF label = <<>> THEN <<SP, SP>> ELSE label

\* styleDayCell returns its content as it is.
styleDayCell(day, content) == content

blankRow(cols) == [i \in 1..cols |-> <<>>]

\* All cells of a view, week by week.
Cells(view) ==
    {<<w, i>> : w \in 1..Len(view.Weeks), i \in 1..7}

\* The column width from the numeral cells alone.
determineColumnWidthNumerals(view) ==
    LET ws == {4} \cup {StringWidth(renderGregorianCell(view.Weeks[c[1]][c[2]])) : c \in Cells(view)}
    IN CHOOSE m \in ws : \A x \in ws : x <= m

determineColumnWidth(view) ==
    LET ws == {4} \cup {StringWidth(renderGregorianCell(view.Weeks[c[1]][c[2]])) : c \in Cells(view)}
                  \cup {StringWidth(renderLunarCell(view.Weeks[c[1]][c[2]])) : c \in Cells(view)}
    IN CHOOSE m \in ws : \A x \in ws : x <= m

\* The rows with a blank row after every week, the last included.
TableRowsTrailingBlank(view) ==
    LET n == Len(view.Weeks)
        week(w) == view.Weeks[w]
        rowAt(k) ==
            IF k = 1 THEN blankRow(Len(weekdays))
            ELSE LET w == (k - 2) \div 3 + 1
                     r == (k - 2) % 3
                 IN IF r = 0
                    THEN [i \in 1..Len(week(w)) |-> renderGregorianCell(week(w)[i])]
                    ELSE IF r = 1
                    THEN [i \in 1..Len(week(w)) |-> renderLunarCell(week(w)[i])]
                    ELSE blankRow(Len(week(w)))
    IN [k \in 1..(3 * n + 1) |-> rowAt(k)]

\* The rows handed to the table: a blank row, then per week the numeral row
\* and the label row, with a blank row between weeks.
TableRows(view) ==
    LET n == Len(view.Weeks)
        week(w) == view.Weeks[w]
        greg(w) == [i \in 1..Len(week(w)) |->
                       styleDayCell(week(w)[i], renderGregorianCell(week(w)[i]))]
        lunar(w) == [i \in 1..Len(week(w)) |->
                        styleDayCell(week(w)[i], renderLunarCell(week(w)[i]))]
        rowAt(k) ==
            IF k = 1 THEN blankRow(Len(weekdays))
            ELSE LET w == (k - 2) \div 3 + 1
                     r == (k - 2) % 3
                 IN IF r = 0 THEN greg(w)
                    ELSE IF r = 1 THEN lunar(w)
                    ELSE blankRow(Len(week(w)))
    IN [k \in 1..(IF n = 0 THEN 1 ELSE 3 * n) |-> rowAt(k)]

\* The highlight directives with the days outside the month taken too.
HighlightsAnyMonth(view) ==
    LET sets(c) == LET d == view.Weeks[c[1]][c[2]]
                   IN d.HolidayInfo # "nil" \/ d.IsToday
        setters == {c \in Cells(view) : sets(c)}
        nums == {view.Weeks[c[1]][c[2]].Day : c \in setters}
        last(n) == CHOOSE c \in setters :
                      /\ view.Weeks[c[1]][c[2]].Day = n
                      /\ \A c2 \in setters :
                            view.Weeks[c2[1]][c2[2]].Day = n
                            => (c2[1] < c[1] \/ (c2[1] = c[1] /\ c2[2] <= c[2]))
        info(n) == LET d == view.Weeks[last(n)[1]][last(n)[2]]
                       label == SecondaryLabel(d)
                   IN [day |-> n,
                       lunarLabel |-> IF label = <<>> THEN <<SP, SP>> ELSE label,
                       hasHoliday |-> d.HolidayInfo # "nil",
                       isHoliday |-> d.HolidayInfo = "holiday",
                       isToday |-> d.IsToday]
    IN [n \in nums |-> info(n)]

\* The highlight directives of a view (the map highlights of
\* buildMonthBlock): one entry per day number of an in-month day that has a
\* holiday record or is today; a later cell with the same day number
\* overwrites an earlier one.
Highlights(view) ==
    LET sets(c) == LET d == view.Weeks[c[1]][c[2]]
                   IN d.InMonth /\ (d.HolidayInfo # "nil" \/ d.IsToday)
        setters == {c \in Cells(view) : sets(c)}
        nums == {view.Weeks[c[1]][c[2]].Day : c \in setters}
        last(n) == CHOOSE c \in setters :
                      /\ view.Weeks[c[1]][c[2]].Day = n
                      /\ \A c2 \in setters :
                            view.Weeks[c2[1]][c2[2]].Day = n
                            => (c2[1] < c[1] \/ (c2[1] = c[1] /\ c2[2] <= c[2]))
        info(n) == LET d == view.Weeks[last(n)[1]][last(n)[2]]
                       label == SecondaryLabel(d)
                   IN [day |-> n,
                       lunarLabel |-> IF label = <<>> THEN <<SP, SP>> ELSE label,
                       hasHoliday |-> d.HolidayInfo # "nil",
                       isHoliday |-> d.HolidayInfo = "holiday",
                       isToday |-> d.IsToday]
    IN [n \in nums |-> info(n)]

----------------------------------------------------------------------------
(* Colour control sequences *)

\* The decimal digits of 0 <= n <= 999.
Dec(n) ==
    IF n < 10 THEN <<Digit(n)>>
    ELSE IF n < 100 THEN <<Digit(n \div 10), Digit(n % 10)>>
    ELSE <<Digit(n \div 100), Digit((n \div 10) % 10), Digit(n % 10)>>

\* "38;2;r;g;b": a 24-bit foreground colour.
Rgb(r, g, b) ==
    <<Digit(3), Digit(8), SEMI, Digit(2), SEMI>> \o Dec(r) \o <<SEMI>> \o Dec(g)
        \o <<SEMI>> \o Dec(b)

\* "\x1b[" params "m"
Sgr(params) == <<ESC, LBRACKET>> \o params \o <<LOWER_M>>

holidayStart == Sgr(Rgb(59, 130, 246))
workdayStart == Sgr(Rgb(249, 115, 22))
todayStart == Sgr(Rgb(52, 211, 153))
colorEnd == Sgr(<<Digit(0)>>)

\* What lipgloss writes for the styles of the package on a terminal with a
\* true-colour profile: the parameters, the text, then the reset.
borderStart == Sgr(Rgb(71, 85, 105))
headerStart == Sgr(<<Digit(1), SEMI>> \o Rgb(165, 180, 252))
titleStart == Sgr(<<Digit(1), SEMI>> \o Rgb(254, 194, 96))
helpStart == Sgr(Rgb(148, 163, 184))
legendStart == Sgr(Rgb(107, 114, 128))

\* style.Render(text) of a one-line text with a foreground colour: with
\* colours (the terminal's profile has them) the text between the style's
\* sequence and the reset, without them the text alone.
Styled(start, text, colours) ==
    IF colours THEN start \o text \o colorEnd ELSE text

----------------------------------------------------------------------------
(* The table (bubbles/table) and its wrapper (lipgloss border and padding) *)

RECURSIVE Concat(_, _)
\* The concatenation of the texts parts[k..]
Concat(parts, k) ==
    IF k > Len(parts) THEN <<>> ELSE parts[k] \o Concat(parts, k + 1)

\* A cell: its content padded with spaces to the column's width, inside the
\* cell style's padding of cellPadding columns on each side.
RenderCell(content, colWidth) ==
    Repeat(SP, cellPadding) \o content
        \o Repeat(SP, Max(colWidth - StringWidth(content), 0))
        \o Repeat(SP, cellPadding)

RowLine(row, colWidth) ==
    Concat([i \in 1..Len(row) |-> RenderCell(row[i], colWidth)], 1)

\* The header line: each title in the header style (bold, coloured unless
\* noColorMode).
HeaderLine(colWidth, colours) ==
    Concat([i \in 1..Len(weekdays) |->
               Styled(headerStart, RenderCell(<<weekdays[i]>>, colWidth), colours)], 1)

\* t.View() without its trailing line breaks: the header, the rows, and the
\* viewport filled with blank lines up to its height, len(rows)+2 less the
\* header's line.
TableLines(rows, colWidth, colours) ==
    LET blank == Repeat(SP, Len(weekdays) * (colWidth + 2 * cellPadding))
    IN <<HeaderLine(colWidth, colours)>>
         \o [k \in 1..Len(rows) |-> RowLine(rows[k], colWidth)]
         \o <<blank>>

\* tableWrapperStyle.Render: a rounded border around the lines, each line
\* padded by one column on the left and on the right.
WrapLines(lines, width, colours) ==
    LET top == Styled(borderStart, <<BOX_TL>> \o Repeat(BOX_H, width + 2) \o <<BOX_TR>>, colours)
        bottom == Styled(borderStart, <<BOX_BL>> \o Repeat(BOX_H, width + 2) \o <<BOX_BR>>, colours)
        side == Styled(borderStart, <<BAR>>, colours)
    IN <<top>> \o [k \in 1..Len(lines) |-> side \o <<SP>> \o lines[k] \o <<SP>> \o side]
             \o <<bottom>>

\* tableView of buildMonthBlock before the colours are applied.
TableView(view, noColor, colours) ==
    LET colWidth == determineColumnWidth(view) + cellPadding * 2
        width == Len(weekdays) * (colWidth + 2 * cellPadding)
        lines == TableLines(TableRows(view), colWidth, colours /\ ~noColor)
    IN IF noColor THEN Join(lines, <<NL>>)
       ELSE Join(WrapLines(lines, width, colours), <<NL>>)

----------------------------------------------------------------------------
(* applyColors *)

\* The colour of a directive with today deciding before the holiday record.
ColorOfTodayFirst(info) ==
    IF info.isToday THEN todayStart
    ELSE IF info.hasHoliday
         THEN (IF info.isHoliday THEN holidayStart ELSE workdayStart)
    ELSE <<>>

\* The colour of a directive, <<>> for a directive that is skipped: a
\* holiday record decides before today.
ColorOf(info) ==
    IF info.hasHoliday
    THEN (IF info.isHoliday THEN holidayStart ELSE workdayStart)
    ELSE IF info.isToday THEN todayStart
    ELSE <<>>

\* The leading class of a one-digit day widened by the digits.
LeadClassLoose(dayNum) ==
    WhiteSpace \cup {BAR} \cup (IF dayNum < 10 THEN DIGIT0..DIGIT9 ELSE {})

\* What may stand before the numeral: (\s+) for a one-digit day, (\s|│) for
\* a two-digit day.
LeadClass(dayNum) ==
    IF dayNum < 10 THEN WhiteSpace ELSE WhiteSpace \cup {BAR}

\* What may stand after a numeral or a label: (\s+|│).
TrailClass == WhiteSpace \cup {BAR}

RECURSIVE SpaceRunEnd(_, _)
\* The first position at or after j that holds no white space.
SpaceRunEnd(s, j) ==
    IF j > Len(s) \/ s[j] \notin WhiteSpace THEN j ELSE SpaceRunEnd(s, j + 1)

\* The position after a match whose token is s[p .. p+len-1]: \s+ takes the
\* whole run of white space, │ one character.
MatchEnd(s, p, len) ==
    IF s[p + len] \in WhiteSpace THEN SpaceRunEnd(s, p + len) ELSE p + len + 1

\* The occurrences of the day's numeral with a character of the leading
\* class before and one of the trailing class after.
DayCandidates(s, dayNum) ==
    LET d == DayStr(dayNum)
    IN {p \in Positions(s, d[1]) :
          /\ p >= 2
          /\ OccursAt(s, d, p)
          /\ s[p - 1] \in LeadClass(dayNum)
          /\ p + Len(d) <= Len(s)
          /\ s[p + Len(d)] \in TrailClass}

RECURSIVE SelectMatches(_, _, _, _)
\* The leftmost non-overlapping matches among the candidates (ascending):
\* a candidate matches when the character before it was not consumed by the
\* match before.  pos is the position the search goes on from.
SelectMatches(s, cands, pos, len) ==
    IF cands = <<>> THEN <<>>
    ELSE LET p == Head(cands)
         IN IF p - 1 >= pos
            THEN <<p>> \o SelectMatches(s, Tail(cands), MatchEnd(s, p, len), len)
            ELSE SelectMatches(s, Tail(cands), pos, len)

\* The replacement without its ${1}: the character before the token is lost.
WrapTokenNoLead(s, p, len, start) ==
    SubSeq(s, 1, p - 2) \o start \o SubSeq(s, p, p + len - 1) \o colorEnd
        \o SubSeq(s, p + len, Len(s))

\* s with the token s[p .. p+len-1] between start and colorEnd.
WrapToken(s, p, len, start) ==
    SubSeq(s, 1, p - 1) \o start \o SubSeq(s, p, p + len - 1) \o colorEnd
        \o SubSeq(s, p + len, Len(s))

RECURSIVE WrapAll(_, _, _, _, _)
\* The tokens at ps[1..k] wrapped, the rightmost first.
WrapAll(s, ps, k, len, start) ==
    IF k = 0 THEN s
    ELSE WrapAll(WrapToken(s, ps[k], len, start), ps, k - 1, len, start)

\* re.ReplaceAllString(output, replacement) for one day of the first pass.
ColorDay(output, info) ==
    LET start == ColorOf(info)
        len == Len(DayStr(info.day))
        ps == SelectMatches(output, SortedSeq(DayCandidates(output, info.day)), 1, len)
    IN IF start = <<>> THEN output ELSE WrapAll(output, ps, Len(ps), len, start)

\* dayNums: the day numbers of the directives in descending order.
dayNumsDescending(highlights) ==
    LET asc == SortedSeq(DOMAIN highlights)
    IN [k \in 1..Len(asc) |-> asc[Len(asc) + 1 - k]]

RECURSIVE FirstPass(_, _, _, _)
FirstPass(output, highlights, dayNums, k) ==
    IF k > Len(dayNums) THEN output
    ELSE FirstPass(ColorDay(output, highlights[dayNums[k]]), highlights, dayNums, k + 1)

\* strings.Contains(line, pat), pat not empty
Contains(line, pat) ==
    \E i \in Positions(line, pat[1]) : OccursAt(line, pat, i)

\* The starts of the matches of (\s|│)(label)(\s+|│) in line.
LabelMatches(line, label) ==
    {i \in 1..Len(line) :
        /\ line[i] \in WhiteSpace \cup {BAR}
        /\ OccursAt(line, label, i + 1)
        /\ i + 1 + Len(label) <= Len(line)
        /\ line[i + 1 + Len(label)] \in TrailClass}

\* The second pass for one day that wraps the label below every line that
\* holds the day's coloured numeral.
ColorLabelEveryLine(lines, info) ==
    LET start == ColorOf(info)
        pat == start \o DayStr(info.day) \o colorEnd
        below(k) == k >= 2 /\ Contains(lines[k - 1], pat)
                        /\ LabelMatches(lines[k], info.lunarLabel) # {}
        first(k) == CHOOSE x \in LabelMatches(lines[k], info.lunarLabel) :
                        \A y \in LabelMatches(lines[k], info.lunarLabel) : x <= y
    IN IF start = <<>> THEN lines
       ELSE [k \in 1..Len(lines) |->
                IF below(k)
                THEN WrapToken(lines[k], first(k) + 1, Len(info.lunarLabel), start)
                ELSE lines[k]]

\* The lines after the second pass has handled one day: the first line that
\* holds the day's coloured numeral and whose next line matches the label
\* gets the first match in that next line wrapped.
ColorLabel(lines, info) ==
    LET start == ColorOf(info)
        pat == start \o DayStr(info.day) \o colorEnd
        hits == {i \in 1..(Len(lines) - 1) :
                    Contains(lines[i], pat) /\ LabelMatches(lines[i + 1], info.lunarLabel) # {}}
    IN IF start = <<>> \/ hits = {} THEN lines
       ELSE LET i == CHOOSE x \in hits : \A y \in hits : x <= y
                ms == LabelMatches(lines[i + 1], info.lunarLabel)
                m == CHOOSE x \in ms : \A y \in ms : x <= y
            IN [lines EXCEPT ![i + 1] =
                   WrapToken(lines[i + 1], m + 1, Len(info.lunarLabel), start)]

RECURSIVE SecondPass(_, _, _, _, _)
\* colored is coloredLunarLabels: the (day, label) keys already handled.
SecondPass(lines, highlights, dayNums, k, colored) ==
    IF k > Len(dayNums) THEN lines
    ELSE LET info == highlights[dayNums[k]]
             key == <<dayNums[k], info.lunarLabel>>
             next == ColorLabel(lines, info)
         IN IF ColorOf(info) = <<>> \/ key \in colored
            THEN SecondPass(lines, highlights, dayNums, k + 1, colored)
            ELSE SecondPass(next, highlights, dayNums, k + 1,
                            IF next # lines THEN colored \cup {key} ELSE colored)

\* applyColors without the test of noColorMode.
applyColorsAlways(output, highlights, noColor) ==
    LET dayNums == dayNumsDescending(highlights)
        first == FirstPass(output, highlights, dayNums, 1)
    IN Join(SecondPass(SplitLines(first), highlights, dayNums, 1, {}), <<NL>>)

\* applyColors: the input under noColorMode; else the numerals of the first
\* pass and the labels of the second wrapped in the directives' colours.
applyColors(output, highlights, noColor) ==
    IF noColor THEN output
    ELSE LET dayNums == dayNumsDescending(highlights)
             first == FirstPass(output, highlights, dayNums, 1)
         IN Join(SecondPass(SplitLines(first), highlights, dayNums, 1, {}), <<NL>>)

\* applyDimColor returns its input.
applyDimColor(output, view) == output

----------------------------------------------------------------------------
(* buildMonthBlock, BuildBlocks, Layout, HelpLine, ColorLegend *)

\* style.Render(text): each line in the style's colour (when the terminal
\* profile has colours), short lines filled with spaces to the widest line.
RenderStyle(start, text, colours) ==
    LET lines == SplitLines(text)
        w == StringWidth(text)
    IN Join([k \in 1..Len(lines) |->
                Styled(start, lines[k], colours) \o Repeat(SP, w - lineWidth(lines[k]))],
            <<NL>>)

\* buildMonthBlock: the title, an empty line and the lines of the coloured
\* table, with the largest StringWidth of a line and the number of lines.
buildMonthBlock(view, noColor, colours) ==
    LET tableView == applyDimColor(
                        applyColors(TableView(view, noColor, colours), Highlights(view), noColor),
                        view)
        title == IF noColor THEN view.Title
                 ELSE RenderStyle(titleStart, view.Title, colours)
        block(lines) ==
            [Lines |-> lines,
             Width |-> MaxOver([k \in 1..Len(lines) |-> StringWidth(lines[k])], 1),
             Height |-> Len(lines)]
    IN block(<<title, <<>>>> \o SplitLines(tableView))

\* BuildBlocks: one block per view (buildMonthBlock returns no error).
BuildBlocks(views, noColor, colours) ==
    [i \in 1..Len(views) |-> buildMonthBlock(views[i], noColor, colours)]

RECURSIVE LayoutLines(_, _)
\* The lines Layout collects from blocks[idx..]: each block's lines, and an
\* empty line after every block but the last.
LayoutLines(blocks, idx) ==
    IF idx > Len(blocks) THEN <<>>
    ELSE blocks[idx].Lines
           \o (IF idx # Len(blocks) THEN <<<<>>>> ELSE <<>>)
           \o LayoutLines(blocks, idx + 1)

\* Layout with an empty line after the last block as well.
LayoutTrailingBlank(blocks, width) ==
    IF Len(blocks) = 0 THEN <<>>
    ELSE Join(LayoutLines(blocks, 1) \o <<<<>>>>, <<NL>>)

\* Layout(blocks, _)
Layout(blocks, width) ==
    IF Len(blocks) = 0 THEN <<>>
    ELSE Join(LayoutLines(blocks, 1), <<NL>>)

\* "j/] 下个月  k/[ 上个月  J/} 下一年  K/{ 上一年 . 回到当前月  y 输入年份  m 输入月份  q 退出"
helpText ==
    <<106, 47, 93, 32, 19979, 20010, 26376, 32, 32, 107, 47, 91, 32, 19978,
      20010, 26376, 32, 32, 74, 47, 125, 32, 19979, 19968, 24180, 32, 32, 75,
      47, 123, 32, 19978, 19968, 24180, 32, 46, 32, 22238, 21040, 24403,
      21069, 26376, 32, 32, 121, 32, 36755, 20837, 24180, 20221, 32, 32, 109,
      32, 36755, 20837, 26376, 20221, 32, 32, 113, 32, 36864, 20986>>

\* "\n蓝色=节假日  橙色=调休日"
legend ==
    <<10, 34013, 33394, 61, 33410, 20551, 26085, 32, 32, 27225, 33394, 61,
      35843, 20241, 26085>>

HelpLine(noColor, colours) ==
    IF noColor THEN helpText ELSE RenderStyle(helpStart, helpText, colours)

ColorLegend(noColor, colours) ==
    IF noColor THEN legend ELSE RenderStyle(legendStart, legend, colours)

----------------------------------------------------------------------------
(* Inputs *)

MaxTextLen == 3
MaxPad == 3
MaxBlockLen == 4
MaxBlocks == 2
MaxHolidays == 1

\* Characters above ASCII that the sample texts hold beside 中: é (two GBK
\* bytes), ÿ (not in GBK) and the Hangul syllable 한 (wide, not in GBK).
SampleChars == [eAcute |-> 233, yDiaeresis |-> 255, hangul |-> 54620]
E_ACUTE == SampleChars.eAcute
Y_DIAERESIS == SampleChars.yDiaeresis
HANGUL_HAN == SampleChars.hangul
CHU == 21021

\* Texts for StringWidth: the line break, the carriage return, the characters
\* of a control sequence (two of them ASCII letters and punctuation), a CJK
\* ideograph (two GBK bytes), a Latin-1 letter of GBK, a Latin-1 letter that
\* GBK lacks, the euro sign (one GBK byte) and a wide character that GBK
\* lacks.
TextAlphabet ==
    {NL, CR, ESC, LBRACKET, LOWER_M, ZHONG, E_ACUTE, Y_DIAERESIS, EURO,
     HANGUL_HAN}

\* Texts for PadRight: lines of narrow and wide characters.
PadAlphabet == {LOWER_A, NL, CR, ZHONG, HANGUL_HAN}

SeqsUpTo(A, n) == UNION {[1..k -> A] : k \in 0..n}

Texts == SeqsUpTo(TextAlphabet, MaxTextLen)

PadTexts == SeqsUpTo(PadAlphabet, MaxTextLen)

\* The text s with c put in after its first p characters.
Insert(s, p, c) == SubSeq(s, 1, p) \o c \o SubSeq(s, p + 1, Len(s))

\* Control sequences that match ansiRegexp.
CtrlSeqs == {Sgr(<<>>), colorEnd, Sgr(<<Digit(1), SEMI, Digit(3)>>)}

\* Blocks handed to applyColors directly.
BlockAlphabet == {SP, NL, BAR, Digit(1)}

BlockTexts == SeqsUpTo(BlockAlphabet, MaxBlockLen)

\* Blocks that hold the label of the directives below their numerals:
\* " 1 / 初 / 1 / 初 ", " 1 /初 / 1 / 初 初 ", " 1 11 / 初 │初│", " 初 / 1 ",
\* " 11 / 初 / 1 / 初 " (a stroke for a line break).
LabelBlocks ==
    {<<SP, Digit(1), SP, NL, SP, CHU, SP, NL, SP, Digit(1), SP, NL, SP, CHU, SP>>,
     <<SP, Digit(1), SP, NL, CHU, SP, NL, SP, Digit(1), SP, NL, SP, CHU, SP, CHU, SP>>,
     <<SP, Digit(1), SP, Digit(1), Digit(1), SP, NL, SP, CHU, SP, BAR, CHU, BAR>>,
     <<SP, CHU, SP, NL, SP, Digit(1), SP>>,
     <<SP, Digit(1), Digit(1), SP, NL, SP, CHU, SP, NL, SP, Digit(1), SP, NL, SP, CHU, SP>>}

DirectiveKinds ==
    {[hasHoliday |-> TRUE, isHoliday |-> TRUE, isToday |-> FALSE],
     [hasHoliday |-> FALSE, isHoliday |-> FALSE, isToday |-> TRUE],
     [hasHoliday |-> FALSE, isHoliday |-> FALSE, isToday |-> FALSE]}

DirectiveOf(n, kind) ==
    [day |-> n, lunarLabel |-> <<CHU>>, hasHoliday |-> kind.hasHoliday,
     isHoliday |-> kind.isHoliday, isToday |-> kind.isToday]

DirectiveSets ==
    UNION {{[n \in D |-> DirectiveOf(n, k[n])] : k \in [D -> DirectiveKinds]}
           : D \in SUBSET {1, 11}}

\* The shapes of months: November 2025 starts on a Saturday and has 30 days
\* (6 weeks), February 2026 starts on a Sunday and has 28 days (4 weeks).
MonthShapes ==
    {[offset |-> 6, ndays |-> 30, prev |-> 31, year |-> 2025, month |-> 11],
     [offset |-> 0, ndays |-> 28, prev |-> 31, year |-> 2026, month |-> 2]}

\* The dates (days of the month; 0 and below are days of the month before)
\* that may be today or have a holiday record.
TodaySets == {{}, {1}, {11}}
HolidayDates == {1, 11, 21}
HolidayMaps ==
    UNION {[H -> {"holiday", "workday"}]
           : H \in {X \in SUBSET HolidayDates : Cardinality(X) <= MaxHolidays}}

\* The lunar day of the 1st of the month (0: no lunar data), the date of a
\* solar term (0: none) and the name of the lunar month: 十月, or, for a
\* month whose 11th is the first day of the lunar month, 十一月 or no name.
Labellings ==
    {[lunarFirst |-> 28, solarDay |-> 4, monthAlias |-> <<21313, 26376>>],
     [lunarFirst |-> 0, solarDay |-> 0, monthAlias |-> <<>>],
     [lunarFirst |-> 21, solarDay |-> 0, monthAlias |-> <<21313, 19968, 26376>>],
     [lunarFirst |-> 21, solarDay |-> 0, monthAlias |-> <<>>]}

NUMERALS == <<19968, 20108, 19977, 22235, 20116, 20845, 19971, 20843, 20061, 21313>>

\* Lunar.DayAlias of lunar day n: 初一 .. 初十, 十一 .. 十九, 二十, 廿一 .. 廿九, 三十
LunarDayName(n) ==
    IF n <= 10 THEN <<CHU, NUMERALS[n]>>
    ELSE IF n < 20 THEN <<NUMERALS[10], NUMERALS[n - 10]>>
    ELSE IF n = 20 THEN <<NUMERALS[2], NUMERALS[10]>>
    ELSE IF n < 30 THEN <<24319, NUMERALS[n - 20]>>
    ELSE <<NUMERALS[3], NUMERALS[10]>>

\* fmt.Sprintf("%d 年 %d 月", year, month)
TitleOf(year, month) ==
    <<Digit(year \div 1000), Digit((year \div 100) % 10), Digit((year \div 10) % 10),
      Digit(year % 10), SP, 24180, SP>> \o Dec(month) \o <<SP, 26376>>

\* A MonthView as Service.Month lays it out: whole weeks from the Sunday on
\* or before the 1st, the days outside the month with InMonth false.
MonthViewOf(shape, todaySet, hol, lab) ==
    LET nweeks == (shape.offset + shape.ndays + 6) \div 7
        dayAt(w, i) ==
            LET date == (w - 1) * 7 + i - shape.offset
                lunar == ((lab.lunarFirst + date + 58) % 30) + 1
            IN [Day |-> IF date < 1 THEN shape.prev + date
                        ELSE IF date > shape.ndays THEN date - shape.ndays
                        ELSE date,
                InMonth |-> date >= 1 /\ date <= shape.ndays,
                LunarDayAlias |-> IF lab.lunarFirst = 0 THEN <<>> ELSE LunarDayName(lunar),
                LunarMonthAlias |-> lab.monthAlias,
                SolarTerm |-> IF lab.solarDay # 0 /\ date = lab.solarDay
                              THEN <<31435, 20908>> ELSE <<>>,
                IsToday |-> date \in todaySet,
                HolidayInfo |-> IF date \in DOMAIN hol THEN hol[date] ELSE "nil"]
    IN [Year |-> shape.year, Month |-> shape.month,
        Title |-> TitleOf(shape.year, shape.month),
        Weeks |-> [w \in 1..nweeks |-> [i \in 1..7 |-> dayAt(w, i)]]]

Views ==
    {MonthViewOf(sh, t, h, l) :
        sh \in MonthShapes, t \in TodaySets, h \in HolidayMaps, l \in Labellings}

\* Blocks handed to Layout directly.
SampleBlocks ==
    {[Lines |-> ls, Width |-> 1, Height |-> Len(ls)] :
        ls \in {<<>>, <<<<LOWER_A>>>>, <<<<LOWER_A>>, <<>>>>, <<<<>>, <<ZHONG>>>>}}

----------------------------------------------------------------------------
(* The state machine: one action per exported operation *)

NoLocals ==
    [tableView |-> <<>>, highlights |-> <<>>, output |-> <<>>, rows |-> <<>>, colWidth |-> 0]

\* No result of the calendar service, and the zero value of tui's model.
NoResult == [views |-> <<>>, err |-> "nil"]
NoModel ==
    [request |-> [Year |-> 0, Month |-> 0, Mode |-> "ModeMonth"],
     width |-> 0, inputMode |-> "inputNone", input |-> <<>>, statusMsg |-> <<>>,
     holidayCacheValid |-> FALSE]

\* The holiday download before it is started: the program's model m, the
\* value m0 that DownloadHolidays keeps, the two channels, the command
\* startDownload, the download goroutine, the ticker goroutine, the
\* listener, and the messages on their way to Update.
ZeroDownloadModel == [done |-> FALSE, err |-> "nil", downloaded |-> 0, waitingKey |-> FALSE]
NoDownload ==
    [phase |-> "none", version |-> "none", m0 |-> ZeroDownloadModel,
     m |-> ZeroDownloadModel, runErr |-> "nil", start |-> "none",
     pathErr |-> FALSE, worker |-> [pc |-> "none", path |-> "none"],
     ticker |-> [pc |-> "none", bytes |-> 0],
     downloaded |-> 0, progressCh |-> <<>>, completeCh |-> <<>>, listener |-> "none",
     msgs |-> <<>>, sent |-> 0, result |-> "none", exit |-> 0]

\* No call remembered.
NoEarlier == [call |-> [op |-> "none"], ret |-> <<>>, noColor |-> FALSE]

Init ==
    /\ noColorMode = FALSE
    /\ call = [op |-> "none"]
    /\ ret = <<>>
    /\ maxWidth = 0
    /\ locals = NoLocals
    /\ svcRet = NoResult
    /\ model = NoModel
    /\ stdout = <<>>
    /\ earlier = NoEarlier
    /\ dl = NoDownload

Ready == call.op = "none"

\* SetNoColor(disable)
SetNoColor ==
    /\ Ready
    /\ \E disable \in BOOLEAN : noColorMode' = disable
    /\ UNCHANGED <<call, ret, maxWidth, locals>>
    /\ UNCHANGED appVars

CallStringWidth ==
    /\ Ready
    /\ \E s \in Texts :
          /\ call' = [op |-> "StringWidth", s |-> s]
          /\ maxWidth' = StringWidth(s)
    /\ UNCHANGED <<noColorMode, ret, locals>>
    /\ UNCHANGED appVars

\* StringWidth of a text that holds a colour control sequence.
CallStringWidthStyled ==
    /\ Ready
    /\ \E t \in SeqsUpTo(TextAlphabet, MaxTextLen - 1), c \in CtrlSeqs :
          \E p \in 0..Len(t) :
             /\ call' = [op |-> "StringWidth", s |-> Insert(t, p, c)]
             /\ maxWidth' = StringWidth(Insert(t, p, c))
    /\ UNCHANGED <<noColorMode, ret, locals>>
    /\ UNCHANGED appVars

CallPadRight ==
    /\ Ready
    /\ \E s \in PadTexts, width \in 0..MaxPad :
          /\ call' = [op |-> "PadRight", s |-> s, width |-> width]
          /\ ret' = PadRight(s, width)
    /\ UNCHANGED <<noColorMode, maxWidth, locals>>
    /\ UNCHANGED appVars

CallApplyColors ==
    /\ Ready
    /\ \E output \in BlockTexts \cup LabelBlocks, highlights \in DirectiveSets :
          /\ call' = [op |-> "applyColors", output |-> output, highlights |-> highlights]
          /\ ret' = applyColors(output, highlights, noColorMode)
    /\ UNCHANGED <<noColorMode, maxWidth, locals>>
    /\ UNCHANGED appVars

\* BuildBlocks for the views of one request in month mode (one view), or for
\* no view.
CallBuildBlocks ==
    /\ Ready
    /\ \E views \in {<<>>} \cup {<<v>> : v \in Views}, colours \in BOOLEAN :
          /\ call' = [op |-> "BuildBlocks", views |-> views, colours |-> colours]
          /\ ret' = BuildBlocks(views, noColorMode, colours)
          /\ locals' =
                IF views = <<>> THEN NoLocals
                ELSE LET t == TableView(views[1], noColorMode, colours)
                         h == Highlights(views[1])
                     IN [tableView |-> t, highlights |-> h,
                         output |-> applyColors(t, h, noColorMode),
                         rows |-> TableRows(views[1]),
                         colWidth |-> determineColumnWidth(views[1]) + cellPadding * 2]
    /\ UNCHANGED <<noColorMode, maxWidth>>
    /\ UNCHANGED appVars

\* Layout of the blocks BuildBlocks just returned (RunPlain, renderCalendar).
CallLayoutBuilt ==
    /\ call.op = "BuildBlocks"
    /\ \E width \in {0, 100} :
          /\ call' = [op |-> "Layout", blocks |-> ret, width |-> width]
          /\ ret' = Layout(ret, width)
    /\ UNCHANGED <<noColorMode, maxWidth, locals>>
    /\ UNCHANGED appVars

CallLayout ==
    /\ Ready
    /\ \E blocks \in SeqsUpTo(SampleBlocks, MaxBlocks), width \in {0, 100} :
          /\ call' = [op |-> "Layout", blocks |-> blocks, width |-> width]
          /\ ret' = Layout(blocks, width)
    /\ UNCHANGED <<noColorMode, maxWidth, locals>>
    /\ UNCHANGED appVars

CallHelpLine ==
    /\ Ready
    /\ \E colours \in BOOLEAN :
          /\ call' = [op |-> "HelpLine", colours |-> colours]
          /\ ret' = HelpLine(noColorMode, colours)
    /\ UNCHANGED <<noColorMode, maxWidth, locals>>
    /\ UNCHANGED appVars

CallColorLegend ==
    /\ Ready
    /\ \E colours \in BOOLEAN :
          /\ call' = [op |-> "ColorLegend", colours |-> colours]
          /\ ret' = ColorLegend(noColorMode, colours)
    /\ UNCHANGED <<noColorMode, maxWidth, locals>>
    /\ UNCHANGED appVars

\* The caller takes the result; the next call may start.
Return ==
    /\ ~Ready
    /\ call' = [op |-> "none"]
    /\ ret' = <<>>
    /\ maxWidth' = 0
    /\ locals' = NoLocals
    /\ UNCHANGED noColorMode
    /\ UNCHANGED appVars

Next ==
    \/ SetNoColor
    \/ CallStringWidth
    \/ CallStringWidthStyled
    \/ CallPadRight
    \/ CallApplyColors
    \/ CallBuildBlocks
    \/ CallLayoutBuilt
    \/ CallLayout
    \/ CallHelpLine
    \/ CallColorLegend
    \/ Return

Spec == Init /\ [][Next]_vars

----------------------------------------------------------------------------
(* package calendar: requests *)

MinSupportedYear == 1900
MaxSupportedYear == 3000

\* Request.Normalize: roll the year until the month is within 1..12.
RECURSIVE Normalize(_)
Normalize(r) ==
    IF r.Month > 12 THEN Normalize([r EXCEPT !.Month = @ - 12, !.Year = @ + 1])
    ELSE IF r.Month < 1 THEN Normalize([r EXCEPT !.Month = @ + 12, !.Year = @ - 1])
    ELSE r

\* NextMonth without Normalize.
NextMonthRaw(r) == [r EXCEPT !.Month = r.Month + 1]

NextMonth(r) == Normalize([r EXCEPT !.Month = @ + 1])
PreviousMonth(r) == Normalize([r EXCEPT !.Month = @ - 1])
NextYear(r) == [r EXCEPT !.Year = @ + 1]
PreviousYear(r) == [r EXCEPT !.Year = @ - 1]

----------------------------------------------------------------------------
(* Local time, as package time computes it for the calendar service.  A    *)
(* time is its civil date and hour in time.Local: [y, m, d, h].            *)

IsLeap(y) == (y % 4 = 0 /\ y % 100 # 0) \/ y % 400 = 0

DaysIn(y, m) ==
    IF m = 2 THEN (IF IsLeap(y) THEN 29 ELSE 28)
    ELSE IF m \in {4, 6, 9, 11} THEN 30
    ELSE 31

DaysBefore == <<0, 31, 59, 90, 120, 151, 181, 212, 243, 273, 304, 334>>

\* The days from 0001-01-01 to the date y-m-d.
DayNumber(y, m, d) ==
    365 * (y - 1) + (y - 1) \div 4 - (y - 1) \div 100 + (y - 1) \div 400
    + DaysBefore[m] + (IF m > 2 /\ IsLeap(y) THEN 1 ELSE 0) + d - 1

\* Time.Weekday: 0 is Sunday; 0001-01-01 was a Monday.
Weekday(t) == (DayNumber(t.y, t.m, t.d) + 1) % 7

\* time.Date normalises a month outside 1..12 and a day outside the month.
RECURSIVE CivilDate(_, _, _)
CivilDate(y, m, d) ==
    IF m > 12 THEN CivilDate(y + 1, m - 12, d)
    ELSE IF m < 1 THEN CivilDate(y - 1, m + 12, d)
    ELSE IF d < 1 THEN
        (IF m = 1 THEN CivilDate(y - 1, 12, d + 31)
         ELSE CivilDate(y, m - 1, d + DaysIn(y, m - 1)))
    ELSE IF d > DaysIn(y, m) THEN CivilDate(y, m + 1, d - DaysIn(y, m))
    ELSE <<y, m, d>>

\* time.Date(y, m, d, h, 0, 0, 0, time.Local).  zone.gap is the date, if any,
\* on which the clocks of time.Local go forward at midnight, so that the
\* hour from 00:00 to 01:00 does not exist on that date.  For a time in
\* such a gap, Date "returns a time that is correct in one of the two zones
\* involved in the transition, but it does not guarantee which": 23:00 of
\* the day before (the zone's offset after the transition applied before
\* it), or 01:00 of that date.
Date(y, m, d, h, zone) ==
    LET c == CivilDate(y, m, d)
    IN IF h = 0 /\ c = zone.gap
       THEN IF zone.later THEN [y |-> c[1], m |-> c[2], d |-> c[3], h |-> 1]
            ELSE LET p == CivilDate(c[1], c[2], c[3] - 1)
                 IN [y |-> p[1], m |-> p[2], d |-> p[3], h |-> 23]
       ELSE [y |-> c[1], m |-> c[2], d |-> c[3], h |-> h]

\* Time.AddDate
AddDate(t, years, months, days, zone) ==
    Date(t.y + years, t.m + months, t.d + days, t.h, zone)

\* Time.Equal, Time.After: the order of the instants.
Equal(t, u) == DayNumber(t.y, t.m, t.d) = DayNumber(u.y, u.m, u.d) /\ t.h = u.h
After(t, u) ==
    LET a == DayNumber(t.y, t.m, t.d)
        b == DayNumber(u.y, u.m, u.d)
    IN a > b \/ (a = b /\ t.h > u.h)

sameDay(a, b) == a.y = b.y /\ a.m = b.m /\ a.d = b.d

----------------------------------------------------------------------------
(* package holidays: the lookup *)

HYPHEN == 45

\* fmt.Sprintf("%d", n) for n >= 0
RECURSIVE Itoa(_)
Itoa(n) == IF n < 10 THEN <<Digit(n)>> ELSE Itoa(n \div 10) \o <<Digit(n % 10)>>

\* fmt.Sprintf("%02d", n) for n >= 0
Itoa02(n) == IF n < 10 THEN <<DIGIT0, Digit(n)>> ELSE Itoa(n)

\* GetHolidayForDate.  The data is nil (isNil) or maps the year, as text, to
\* a map from "MM-DD" to an entry; the result is "nil" for no record.
GetHolidayForDate(data, year, month, day) ==
    IF data.isNil THEN "nil"
    ELSE LET yearStr == Itoa(year)
             dateStr == Itoa02(month) \o <<HYPHEN>> \o Itoa02(day)
         IN IF yearStr \notin DOMAIN data.years THEN "nil"
            ELSE IF dateStr \notin DOMAIN data.years[yearStr] THEN "nil"
            ELSE IF data.years[yearStr][dateStr].Holiday THEN "holiday"
            ELSE "workday"

----------------------------------------------------------------------------
(* package calendar: the service.  A service is its clock (now), its       *)
(* holiday data, the zone of time.Local and the almanac of the lunar       *)
(* calendar library: the day number of a new moon and the date of a solar  *)
(* term.                                                                   *)

\* calendarlib.BySolar(...).Lunar.DayAlias(): months of 30 days from the
\* almanac's new moon.
LunarDayOf(almanac, t) == ((DayNumber(t.y, t.m, t.d) - almanac.newMoon) % 30) + 1

buildDay(day, currentMonth, svc) ==
    LET inMonth == day.m = currentMonth
        isToday == sameDay(day, svc.now)
    IN IF day.y < MinSupportedYear \/ day.y > MaxSupportedYear
       THEN [Date |-> day, Day |-> day.d, InMonth |-> inMonth,
             LunarDayAlias |-> <<>>, LunarMonthAlias |-> <<>>, SolarTerm |-> <<>>,
             IsToday |-> isToday, HolidayInfo |-> "nil"]
       ELSE [Date |-> day, Day |-> day.d, InMonth |-> inMonth,
             LunarDayAlias |-> LunarDayName(LunarDayOf(svc.almanac, day)),
             LunarMonthAlias |-> <<NUMERALS[10], 26376>>,
             SolarTerm |-> IF <<day.y, day.m, day.d>> = svc.almanac.term
                           THEN <<31435, 20908>> ELSE <<>>,
             IsToday |-> isToday,
             HolidayInfo |-> IF svc.holidayData.isNil THEN "nil"
                             ELSE GetHolidayForDate(svc.holidayData, day.y, day.m, day.d)]

\* cursor after n times cursor = cursor.AddDate(0, 0, 1)
RECURSIVE Advance(_, _, _)
Advance(cursor, n, zone) ==
    IF n = 0 THEN cursor ELSE Advance(AddDate(cursor, 0, 0, 1, zone), n - 1, zone)

\* The loop of Service.Month, from the weeks built so far.
RECURSIVE MonthWeeks(_, _, _, _, _)
MonthWeeks(weeks, cursor, firstDay, end, svc) ==
    LET week == [i \in 1..7 |-> buildDay(Advance(cursor, i - 1, svc.zone), firstDay.m, svc)]
        after == Advance(cursor, 7, svc.zone)
        all == Append(weeks, week)
    IN IF (Equal(after, end) \/ After(after, end)) /\ Weekday(after) = 0 THEN all
       ELSE IF Len(all) >= 6 /\ After(after, AddDate(end, 0, 0, 7, svc.zone)) THEN all
       ELSE MonthWeeks(all, after, firstDay, end, svc)

NoView == [Year |-> 0, Month |-> 0, Title |-> <<>>, Weeks |-> <<>>]

\* Service.Month without the check of the year.
MonthAnyYear(year, month, svc) ==
    IF month < 1 \/ month > 12
    THEN [view |-> NoView, err |-> "ErrInvalidMonth"]
    ELSE LET firstDay == Date(year, month, 1, 0, svc.zone)
             start == AddDate(firstDay, 0, 0, -Weekday(firstDay), svc.zone)
             end == AddDate(firstDay, 0, 1, 0, svc.zone)
         IN [view |-> [Year |-> year, Month |-> firstDay.m,
                       Title |-> TitleOf(year, month),
                       Weeks |-> MonthWeeks(<<>>, start, firstDay, end, svc)],
             err |-> "nil"]

\* Service.Month
Month(year, month, svc) ==
    IF year < MinSupportedYear \/ year > MaxSupportedYear
    THEN [view |-> NoView, err |-> "ErrYearOutOfRange"]
    ELSE IF month < 1 \/ month > 12
    THEN [view |-> NoView, err |-> "ErrInvalidMonth"]
    ELSE LET firstDay == Date(year, month, 1, 0, svc.zone)
             start == AddDate(firstDay, 0, 0, -Weekday(firstDay), svc.zone)
             end == AddDate(firstDay, 0, 1, 0, svc.zone)
         IN [view |-> [Year |-> year, Month |-> firstDay.m,
                       Title |-> TitleOf(year, month),
                       Weeks |-> MonthWeeks(<<>>, start, firstDay, end, svc)],
             err |-> "nil"]

\* Service.Year
Year(year, svc) ==
    IF year < MinSupportedYear \/ year > MaxSupportedYear
    THEN [views |-> <<>>, err |-> "ErrYearOutOfRange"]
    ELSE LET months == [m \in 1..12 |-> Month(year, m, svc)]
             failed == {m \in 1..12 : months[m].err # "nil"}
         IN IF failed # {}
            THEN [views |-> <<>>,
                  err |-> months[CHOOSE m \in failed : \A k \in failed : m <= k].err]
            ELSE [views |-> [m \in 1..12 |-> months[m].view], err |-> "nil"]

----------------------------------------------------------------------------
(* package render: the plain renderer *)

\* "\n尚未下载节假日数据或节假日数据超过 6 个月未更新，运行  lucal -u 获取最新数据"
reminder ==
    <<10, 23578, 26410, 19979, 36733, 33410, 20551, 26085, 25968, 25454,
      25110, 33410, 20551, 26085, 25968, 25454, 36229, 36807, 32, 54, 32,
      20010, 26376, 26410, 26356, 26032, 65292, 36816, 34892, 32, 32, 108,
      117, 99, 97, 108, 32, 45, 117, 32, 33719, 21462, 26368, 26032, 25968,
      25454>>

\* F(x), for the value of x.
With(x, F(_)) == CHOOSE y \in {F(v) : v \in {x}} : TRUE

\* fetchViews of package render: the year's views in year mode, else the
\* month's view.
fetchViews(svc, req) ==
    IF req.Mode = "ModeYear" THEN Year(req.Year, svc)
    ELSE With(Month(req.Year, req.Month, svc), LAMBDA r :
             IF r.err # "nil" THEN [views |-> <<>>, err |-> r.err]
             ELSE [views |-> <<r.view>>, err |-> "nil"])

\* RunPlain(opts): the error returned, whether BuildBlocks was called, and
\* the text written to opts.Writer.
RunPlain(opts, noColor, colours) ==
    With(fetchViews(opts.Service, Normalize(opts.Request)), LAMBDA fetched :
        IF fetched.err # "nil"
        THEN [err |-> fetched.err, built |-> FALSE, written |-> <<>>]
        ELSE With(Layout(BuildBlocks(fetched.views, noColor, colours), opts.Width),
                  LAMBDA output :
            IF output = <<>> THEN [err |-> "nil", built |-> TRUE, written |-> <<>>]
            ELSE [err |-> "nil", built |-> TRUE,
                  written |->
                      output \o <<NL>>
                      \o (IF ~opts.Service.holidayData.isNil
                          THEN <<NL>> \o ColorLegend(noColor, colours) \o <<NL>>
                          ELSE <<>>)
                      \o (IF ~opts.HolidayCacheValid THEN reminder \o <<NL>>
                          ELSE <<>>)]))

----------------------------------------------------------------------------
(* Text conversions of strings and strconv *)

PLUS == 43

\* unicode.IsSpace
IsSpace(c) ==
    \/ c \in {TAB, NL, 11, FF, CR, SP, 133, 160, 5760, 8232, 8233, 8239, 8287, 12288}
    \/ (c >= 8192 /\ c <= 8202)

\* strings.TrimSpace
TrimSpace(s) ==
    LET keep == {i \in 1..Len(s) : ~IsSpace(s[i])}
    IN IF keep = {} THEN <<>>
       ELSE SubSeq(s, CHOOSE i \in keep : \A j \in keep : i <= j,
                      CHOOSE i \in keep : \A j \in keep : i >= j)

\* strings.Fields(s) from position i on: the runs of characters that are not
\* spaces.
RECURSIVE FieldsFrom(_, _)
FieldsFrom(s, i) ==
    IF i > Len(s) THEN <<>>
    ELSE IF IsSpace(s[i]) THEN FieldsFrom(s, i + 1)
    ELSE LET stops == {j \in i..Len(s) : IsSpace(s[j])}
             end == IF stops = {} THEN Len(s) + 1
                    ELSE CHOOSE j \in stops : \A k \in stops : j <= k
         IN <<SubSeq(s, i, end - 1)>> \o FieldsFrom(s, end)

Fields(s) == FieldsFrom(s, 1)

\* The value of a text of decimal digits.
RECURSIVE DigitsValue(_)
DigitsValue(s) ==
    IF s = <<>> THEN 0
    ELSE 10 * DigitsValue(SubSeq(s, 1, Len(s) - 1)) + (s[Len(s)] - DIGIT0)

\* strconv.Atoi for texts whose value fits an int: an optional sign, then
\* one digit or more.
Atoi(s) ==
    LET signed == Len(s) > 0 /\ s[1] \in {PLUS, HYPHEN}
        digits == IF signed THEN Tail(s) ELSE s
    IN IF digits = <<>> \/ \E i \in 1..Len(digits) : digits[i] < DIGIT0 \/ digits[i] > DIGIT9
       THEN [ok |-> FALSE, n |-> 0]
       ELSE [ok |-> TRUE,
             n |-> IF signed /\ s[1] = HYPHEN THEN -DigitsValue(digits)
                   ELSE DigitsValue(digits)]

----------------------------------------------------------------------------
(* package tui: the model of the interactive session *)

CharLimit == 16

\* "请输入数字"
msgEnterNumber == <<35831, 36755, 20837, 25968, 23383>>
\* "格式应为: 年 或 年 月"
msgYearFormat ==
    <<26684, 24335, 24212, 20026, 58, 32, 24180, 32, 25110, 32, 24180, 32, 26376>>
\* "无效的年份"
msgBadYear == <<26080, 25928, 30340, 24180, 20221>>
\* "月份需在 1-12 之间"
msgMonthRange == <<26376, 20221, 38656, 22312, 32, 49, 45, 49, 50, 32, 20043, 38388>>
\* "无效的月份"
msgBadMonth == <<26080, 25928, 30340, 26376, 20221>>

\* newModel(svc, req, holidayCacheValid) after Run normalised the request
newModel(req, holidayCacheValid) ==
    [request |-> Normalize(req), width |-> 0, inputMode |-> "inputNone",
     input |-> <<>>, statusMsg |-> <<>>, holidayCacheValid |-> holidayCacheValid]

activateInput(m, mode) ==
    [m EXCEPT !.inputMode = mode, !.input = <<>>, !.statusMsg = <<>>]

\* The accepted input with the status message left as it is.
acceptInputKeepsStatus(m) ==
    [m EXCEPT !.request = Normalize(@), !.inputMode = "inputNone"]

\* The end of applyInput for an accepted input.
acceptInput(m) ==
    [m EXCEPT !.request = Normalize(@), !.statusMsg = <<>>, !.inputMode = "inputNone"]

\* applyInput: the year is assigned before the month is validated.
applyInput(m) ==
    LET value == TrimSpace(m.input)
        fields == Fields(value)
        year == Atoi(fields[1])
        month == Atoi(fields[2])
        num == Atoi(value)
        withYear == [m EXCEPT !.request.Year = year.n]
    IN IF value = <<>> THEN [m EXCEPT !.statusMsg = msgEnterNumber]
       ELSE IF m.inputMode = "inputYear" THEN
            IF Len(fields) = 0 \/ Len(fields) > 2
            THEN [m EXCEPT !.statusMsg = msgYearFormat]
            ELSE IF ~year.ok THEN [m EXCEPT !.statusMsg = msgBadYear]
            ELSE IF Len(fields) = 2 THEN
                 IF ~month.ok \/ month.n < 1 \/ month.n > 12
                 THEN [withYear EXCEPT !.statusMsg = msgMonthRange]
                 ELSE acceptInput([withYear EXCEPT !.request.Month = month.n,
                                                   !.request.Mode = "ModeMonth"])
            ELSE acceptInput([withYear EXCEPT !.request.Mode = "ModeMonth"])
       ELSE IF m.inputMode = "inputMonth" THEN
            IF ~num.ok THEN [m EXCEPT !.statusMsg = msgBadMonth]
            ELSE IF num.n < 1 \/ num.n > 12 THEN [m EXCEPT !.statusMsg = msgMonthRange]
            ELSE acceptInput([m EXCEPT !.request.Month = num.n,
                                       !.request.Mode = "ModeMonth"])
       ELSE acceptInput(m)

\* textinput.Model.Update for typed or pasted characters: they are added at
\* the end of the value, as far as CharLimit leaves room.
inputUpdate(value, runes) ==
    LET room == CharLimit - Len(value)
    IN IF room <= 0 THEN value
       ELSE IF room < Len(runes) THEN value \o SubSeq(runes, 1, room)
       ELSE value \o runes

\* handleInputKey: the model, and whether the program quits.
handleInputKey(m, msg) ==
    IF msg.Type = "KeyEsc"
    THEN [m |-> [m EXCEPT !.inputMode = "inputNone", !.statusMsg = <<>>], quit |-> FALSE]
    ELSE IF msg.Type = "KeyEnter" THEN [m |-> applyInput(m), quit |-> FALSE]
    ELSE IF msg.Type = "KeyCtrlC" THEN [m |-> m, quit |-> TRUE]
    ELSE [m |-> [m EXCEPT !.input = inputUpdate(@, msg.Runes)], quit |-> FALSE]

\* The text of the keys that Update names.
Key(c) == <<c>>

\* model.Update for a key message; now is time.Now().
UpdateKey(m, msg, now) ==
    IF m.inputMode # "inputNone" THEN handleInputKey(m, msg)
    ELSE IF msg.Type = "KeyCtrlC" \/ (msg.Type = "KeyRunes" /\ msg.Runes = Key(113))
    THEN [m |-> m, quit |-> TRUE]
    ELSE IF msg.Type # "KeyRunes" THEN [m |-> m, quit |-> FALSE]
    ELSE LET to(req) == [m EXCEPT !.request = req, !.statusMsg = <<>>]
         IN [quit |-> FALSE,
             m |-> IF msg.Runes \in {Key(107), Key(91)} THEN to(PreviousMonth(m.request))
                   ELSE IF msg.Runes \in {Key(106), Key(93)} THEN to(NextMonth(m.request))
                   ELSE IF msg.Runes \in {Key(75), Key(123)} THEN to(PreviousYear(m.request))
                   ELSE IF msg.Runes \in {Key(74), Key(125)} THEN to(NextYear(m.request))
                   ELSE IF msg.Runes = Key(121) THEN activateInput(m, "inputYear")
                   ELSE IF msg.Runes = Key(109) THEN activateInput(m, "inputMonth")
                   ELSE IF msg.Runes = Key(46)
                        THEN to([Year |-> now.y, Month |-> now.m, Mode |-> "ModeMonth"])
                   ELSE m]

\* Update for a tea.WindowSizeMsg
UpdateSize(m, width) == [m EXCEPT !.width = width]

\* err.Error() of the errors of the calendar service
errorText(err) ==
    IF err = "ErrYearOutOfRange"
    THEN <<121, 101, 97, 114, 32, 109, 117, 115, 116, 32, 98, 101, 32, 98, 101,
           116, 119, 101, 101, 110, 32>> \o Itoa(MinSupportedYear)
         \o <<32, 97, 110, 100, 32>> \o Itoa(MaxSupportedYear)
    ELSE <<109, 111, 110, 116, 104, 32, 109, 117, 115, 116, 32, 98, 101, 32, 98,
           101, 116, 119, 101, 101, 110, 32, 49, 32, 97, 110, 100, 32, 49, 50>>

\* renderCalendar, with model.fetchViews: the month of the request, whatever
\* its mode.  The body, the error, and whether BuildBlocks was called.
renderCalendar(m, svc, noColor, colours) ==
    With(Month(m.request.Year, m.request.Month, svc), LAMBDA month :
        IF month.err # "nil" THEN [body |-> <<>>, err |-> month.err, built |-> FALSE]
        ELSE [body |-> Layout(BuildBlocks(<<month.view>>, noColor, colours),
                              IF m.width <= 0 THEN 100 ELSE m.width),
              err |-> "nil", built |-> TRUE])

\* "输入年份 (回车确认 / Esc 取消)" and "输入月份 1-12 (回车确认 / Esc 取消)"
yearLabel ==
    <<36755, 20837, 24180, 20221, 32, 40, 22238, 36710, 30830, 35748, 32, 47,
      32, 69, 115, 99, 32, 21462, 28040, 41>>
monthLabel ==
    <<36755, 20837, 26376, 20221, 32, 49, 45, 49, 50, 32, 40, 22238, 36710,
      30830, 35748, 32, 47, 32, 69, 115, 99, 32, 21462, 28040, 41>>

\* inputView: the label, an empty line, and the text field (its prompt and
\* its value).
inputView(m, noColor, colours) ==
    LET label == IF m.inputMode = "inputYear" THEN yearLabel ELSE monthLabel
    IN (IF noColor THEN label ELSE RenderStyle(Sgr(<<Digit(1)>>), label, colours))
       \o <<NL, NL, 62, SP>> \o m.input

\* model.View.  noColor is the flag of package tui, renderNoColor the flag
\* of package render.
View(m, svc, noColor, renderNoColor, colours) ==
    IF m.inputMode # "inputNone" THEN inputView(m, noColor, colours)
    ELSE With(renderCalendar(m, svc, renderNoColor, colours), LAMBDA r :
        r.body \o <<NL, NL>> \o HelpLine(renderNoColor, colours)
        \o With(IF r.err # "nil" THEN errorText(r.err) ELSE m.statusMsg,
                LAMBDA status :
                    IF status = <<>> THEN <<>>
                    ELSE <<NL>> \o (IF noColor THEN status
                                    ELSE RenderStyle(workdayStart, status, colours)))
        \o (IF m.holidayCacheValid THEN <<>>
            ELSE <<NL>> \o (IF noColor THEN reminder
                            ELSE RenderStyle(legendStart, reminder, colours))))

----------------------------------------------------------------------------
(* cmd/lucal: the command line *)

\* parseRequest that takes a year and a month with -y as well.
parseRequestYearPair(showYear, args, now) ==
    LET n1 == Atoi(args[1])
        n2 == Atoi(args[2])
        req(year, month, yearMode) ==
            [req |-> Normalize([Year |-> year, Month |-> month,
                                Mode |-> IF yearMode THEN "ModeYear" ELSE "ModeMonth"]),
             err |-> "nil"]
        fail(e) == [req |-> [Year |-> 0, Month |-> 0, Mode |-> "ModeMonth"], err |-> e]
    IN IF Len(args) = 0 THEN req(now.y, now.m, showYear)
       ELSE IF Len(args) = 1 THEN
            IF ~n1.ok THEN fail("parse")
            ELSE IF showYear THEN req(n1.n, now.m, TRUE)
            ELSE IF n1.n >= 1 /\ n1.n <= 12 THEN req(now.y, n1.n, FALSE)
            ELSE req(n1.n, now.m, TRUE)
       ELSE IF Len(args) = 2 THEN
            IF ~n1.ok \/ ~n2.ok THEN fail("parse")
            ELSE IF n2.n < 1 \/ n2.n > 12 THEN fail("monthRange")
            ELSE req(n1.n, n2.n, showYear)
       ELSE fail("tooMany")

\* parseNumber, parseRequest: the request, or an error.
parseRequest(showYear, args, now) ==
    LET n1 == Atoi(args[1])
        n2 == Atoi(args[2])
        req(year, month, yearMode) ==
            [req |-> Normalize([Year |-> year, Month |-> month,
                                Mode |-> IF yearMode THEN "ModeYear" ELSE "ModeMonth"]),
             err |-> "nil"]
        fail(e) == [req |-> [Year |-> 0, Month |-> 0, Mode |-> "ModeMonth"], err |-> e]
    IN IF Len(args) = 0 THEN req(now.y, now.m, showYear)
       ELSE IF Len(args) = 1 THEN
            IF ~n1.ok THEN fail("parse")
            ELSE IF showYear THEN req(n1.n, now.m, TRUE)
            ELSE IF n1.n >= 1 /\ n1.n <= 12 THEN req(now.y, n1.n, FALSE)
            ELSE req(n1.n, now.m, TRUE)
       ELSE IF Len(args) = 2 THEN
            IF showYear THEN fail("yearTakesOne")
            ELSE IF ~n1.ok \/ ~n2.ok THEN fail("parse")
            ELSE IF n2.n < 1 \/ n2.n > 12 THEN fail("monthRange")
            ELSE req(n1.n, n2.n, FALSE)
       ELSE fail("tooMany")

\* IsCacheValid that asks only whether the cache file is there.
IsCacheValidAnyAge(stat, now, zone) ==
    IF stat.err = "notexist" THEN [valid |-> FALSE, err |-> FALSE]
    ELSE IF stat.err # "nil" THEN [valid |-> FALSE, err |-> TRUE]
    ELSE [valid |-> TRUE, err |-> FALSE]

\* holidays.IsCacheValid: stat is the result of os.Stat on the cache file.
IsCacheValid(stat, now, zone) ==
    IF stat.err = "notexist" THEN [valid |-> FALSE, err |-> FALSE]
    ELSE IF stat.err # "nil" THEN [valid |-> FALSE, err |-> TRUE]
    ELSE [valid |-> After(stat.modTime, AddDate(now, 0, -6, 0, zone)), err |-> FALSE]

NilData == [isNil |-> TRUE, years |-> <<>>]

\* main, from the flags and arguments of the command line and the
\* environment env (the clock, the files, the network): the exit status,
\* the flag given to SetNoColor, what was loaded, and what is run:
\* "DownloadHolidays", "RunPlain", "Run" (the interactive session) or
\* nothing.
main(opts, args, env) ==
    LET fromFile == opts.h /\ env.file.err = "nil"
        checked == IsCacheValid(env.stat, env.now, env.zone)
        fromCache == ~opts.h /\ ~env.noCachePath /\ ~checked.err /\ checked.valid
        cacheValid == fromFile \/ (fromCache /\ env.cache.err = "nil")
        holidayData == IF fromFile THEN env.file.data
                       ELSE IF fromCache /\ env.cache.err = "nil" THEN env.cache.data
                       ELSE NilData
        parsed == parseRequest(opts.y, args, env.now)
        service == [now |-> env.now, holidayData |-> holidayData,
                    zone |-> env.zone, almanac |-> env.almanac]
        base == [exit |-> 0, noColor |-> opts.N, runs |-> "none", svc |-> service,
                 req |-> parsed.req, cacheValid |-> cacheValid]
    IN IF opts.u THEN [base EXCEPT !.runs = "DownloadHolidays"]
       ELSE IF parsed.err # "nil" THEN [base EXCEPT !.exit = 1]
       ELSE IF opts.n \/ parsed.req.Mode = "ModeYear" THEN [base EXCEPT !.runs = "RunPlain"]
       ELSE [base EXCEPT !.runs = "Run"]

----------------------------------------------------------------------------
(* Inputs of the program *)

MaxNav == 2
MaxTyped == 1

NoGap == [gap |-> <<>>, later |-> FALSE]

\* Clocks: 2025-11-18 10:00 (the clock of the tests), 2025-12-03 and
\* 2025-03-08.
Clock(name) ==
    IF name = "nov18" THEN [y |-> 2025, m |-> 11, d |-> 18, h |-> 10]
    ELSE IF name = "dec3" THEN [y |-> 2025, m |-> 12, d |-> 3, h |-> 10]
    ELSE [y |-> 2025, m |-> 3, d |-> 8, h |-> 12]

\* The clocks of America/Havana went forward at 00:00 of 2025-03-09.
HavanaGap == <<2025, 3, 9>>

\* The lunar calendar library: a new moon, and 立冬 on 2025-11-07.
Almanac == [newMoon |-> 3, term |-> <<2025, 11, 7>>]

\* Holiday data: with records for 2025-10-31 and 2025-11-18 (holidays) and
\* 2025-11-01 (a workday); with a record for 2024 only.
Text2(a, b) == <<Digit(a \div 10), Digit(a % 10), HYPHEN, Digit(b \div 10), Digit(b % 10)>>
Data2025 ==
    [isNil |-> FALSE,
     years |-> (Itoa(2025) :> (Text2(10, 31) :> [Holiday |-> TRUE]
                               @@ Text2(11, 1) :> [Holiday |-> FALSE]
                               @@ Text2(11, 18) :> [Holiday |-> TRUE]))]
Data2024 ==
    [isNil |-> FALSE, years |-> (Itoa(2024) :> (Text2(11, 18) :> [Holiday |-> TRUE]))]

Service(clock, data, zone) ==
    [now |-> Clock(clock), holidayData |-> data, zone |-> zone, almanac |-> Almanac]

Services ==
    {Service("nov18", NilData, NoGap), Service("nov18", Data2025, NoGap),
     Service("dec3", Data2025, NoGap), Service("nov18", Data2024, NoGap),
     Service("mar8", NilData, [gap |-> HavanaGap, later |-> FALSE]),
     Service("mar8", NilData, [gap |-> HavanaGap, later |-> TRUE])}

MonthYears == {1899, 1900, 2025, 3000, 3001}
MonthNumbers == {0, 1, 3, 11, 12, 13}

\* Requests handed to Normalize, RunPlain and Run.
RawRequests ==
    {[Year |-> 2025, Month |-> mo, Mode |-> md] :
        mo \in {-12, -11, 0, 1, 11, 12, 13, 25}, md \in {"ModeMonth", "ModeYear"}}
    \cup {[Year |-> y, Month |-> 12, Mode |-> md] :
            y \in {1899, 3000, 3001}, md \in {"ModeMonth", "ModeYear"}}

\* Requests handed to RunPlain: months of 2025 (13 is January 2026), a
\* month of 3001, the year 1899.
PlainRequests ==
    {[Year |-> 2025, Month |-> mo, Mode |-> "ModeMonth"] : mo \in {3, 11, 13}}
    \cup {[Year |-> 3001, Month |-> 1, Mode |-> "ModeMonth"],
          [Year |-> 1899, Month |-> 12, Mode |-> "ModeYear"]}

\* Arguments of the command line: "9", "1983", "2012", "12", "13", "0",
\* "3000", "3001", "x", "12a", "", "+5", "-3"; the lists of none, one or two
\* of them, and "2012 12 9", "2012 12 x" and "9 9 9".
ArgTexts ==
    {<<57>>, <<49, 57, 56, 51>>, <<50, 48, 49, 50>>, <<49, 50>>, <<49, 51>>, <<48>>,
     <<51, 48, 48, 48>>, <<51, 48, 48, 49>>, <<120>>, <<49, 50, 97>>, <<>>,
     <<PLUS, 53>>, <<HYPHEN, 51>>}
ArgLists ==
    {<<>>} \cup {<<a>> : a \in ArgTexts} \cup {<<a, b>> : a, b \in ArgTexts}
    \cup {<<<<50, 48, 49, 50>>, <<49, 50>>, c>> : c \in {<<57>>, <<120>>}}
    \cup {<<<<57>>, <<57>>, <<57>>>>}

\* The command lines given to main: none, "3000 12", "3001", "x".
MainArgs == {<<>>, <<<<51, 48, 48, 48>>, <<49, 50>>>>, <<<<51, 48, 48, 49>>>>, <<<<120>>>>}
Options == [y : BOOLEAN, n : BOOLEAN, u : BOOLEAN, h : BOOLEAN, N : BOOLEAN]

\* The environments of main at 2025-11-18 10:00: the cache file's state
\* (missing; written at a time; os.Stat fails otherwise; no cache path),
\* whether the cache and the file of -h can be loaded.
Stat(err, mo, d, h) == [err |-> err, modTime |-> [y |-> 2025, m |-> mo, d |-> d, h |-> h]]
Loaded(data) == [err |-> "nil", data |-> data]
NotLoaded == [err |-> "failed", data |-> NilData]
Env(stat, cache, file, noCachePath) ==
    [now |-> Clock("nov18"), zone |-> NoGap, almanac |-> Almanac, stat |-> stat,
     cache |-> cache, file |-> file, noCachePath |-> noCachePath]
Envs ==
    {Env(Stat("notexist", 1, 1, 0), NotLoaded, Loaded(Data2025), FALSE),
     Env(Stat("notexist", 1, 1, 0), NotLoaded, NotLoaded, FALSE),
     Env(Stat("nil", 5, 18, 10), Loaded(Data2025), Loaded(Data2025), FALSE),
     Env(Stat("nil", 1, 1, 0), Loaded(Data2025), NotLoaded, FALSE),
     Env(Stat("nil", 5, 18, 11), Loaded(Data2025), Loaded(Data2025), FALSE),
     Env(Stat("nil", 11, 1, 0), NotLoaded, NotLoaded, FALSE),
     Env(Stat("other", 11, 1, 0), Loaded(Data2025), NotLoaded, FALSE),
     Env(Stat("nil", 11, 1, 0), Loaded(Data2025), NotLoaded, TRUE)}

\* Key messages.  The keys Update names: k [ j ] K { J } y m . q, Ctrl+C,
\* Esc and Enter; and other keys.
Runes(text) == [Type |-> "KeyRunes", Runes |-> text]
NamedKeys ==
    {Runes(Key(c)) : c \in {107, 91, 106, 93, 75, 123, 74, 125, 121, 109, 46, 113}}
    \cup {[Type |-> t, Runes |-> <<>>] : t \in {"KeyCtrlC", "KeyEsc", "KeyEnter"}}
\* What is typed or pasted while a dialog is open: "2026", "3000 12",
\* "3000 13", " 7 ", "13", "k", ".".
TypedKeys ==
    {Runes(t) : t \in {<<50, 48, 50, 54>>, <<51, 48, 48, 48, 32, 49, 50>>,
                       <<51, 48, 48, 48, 32, 49, 51>>, <<32, 55, 32>>, <<49, 51>>,
                       Key(107), Key(46)}}
    \cup {[Type |-> t, Runes |-> <<>>] : t \in {"KeyCtrlC", "KeyEsc", "KeyEnter"}}
Widths == {80}

\* The months that navigation may reach: within MaxNav months of
\* 2025-11 or 3000-12, a year before or after included.
YM(r) == r.Year * 12 + r.Month
Near(a, b) == a - b <= MaxNav /\ b - a <= MaxNav
InReach(r) ==
    \E anchor \in {2025 * 12 + 11, 3000 * 12 + 12}, years \in {-1, 0, 1} :
        Near(YM(r), anchor + 12 * years)

----------------------------------------------------------------------------
(* The program as a state machine: the calls of the calendar service, of   *)
(* the holiday lookup and of the command line's parser, the plain          *)
(* renderer, and main with the interactive session it may start.           *)

renderVars == <<ret, maxWidth, locals>>

\* Service.Month(year, month)
CallMonth ==
    /\ Ready
    /\ \E year \in MonthYears, month \in MonthNumbers, svc \in Services :
          /\ call' = [op |-> "Month", year |-> year, month |-> month, svc |-> svc]
          /\ \E r \in {Month(year, month, svc)} :
                svcRet' = [views |-> <<r.view>>, err |-> r.err]
    /\ UNCHANGED <<noColorMode, renderVars, model, stdout, earlier, dl>>

\* Service.Year(year)
CallYear ==
    /\ Ready
    /\ \E year \in MonthYears, svc \in Services :
          /\ call' = [op |-> "Year", year |-> year, svc |-> svc]
          /\ svcRet' = Year(year, svc)
    /\ UNCHANGED <<noColorMode, renderVars, model, stdout, earlier, dl>>

\* holidays.GetHolidayForDate(data, year, month, day)
CallGetHolidayForDate ==
    /\ Ready
    /\ \E data \in {NilData, Data2025, Data2024}, year \in {2024, 2025},
          month \in {10, 11}, day \in {1, 18, 31} :
          call' = [op |-> "GetHolidayForDate", data |-> data, year |-> year,
                   month |-> month, day |-> day,
                   info |-> GetHolidayForDate(data, year, month, day)]
    /\ UNCHANGED <<noColorMode, renderVars, appVars>>

\* Request.Normalize()
CallNormalize ==
    /\ Ready
    /\ \E r \in RawRequests : call' = [op |-> "Normalize", r |-> r, req |-> Normalize(r)]
    /\ UNCHANGED <<noColorMode, renderVars, appVars>>

\* parseRequest(showYear, args), with the clock it reads
CallParseRequest ==
    /\ Ready
    /\ \E showYear \in BOOLEAN, args \in ArgLists :
          call' = [op |-> "parseRequest", showYear |-> showYear, args |-> args,
                   now |-> Clock("nov18"),
                   parsed |-> parseRequest(showYear, args, Clock("nov18"))]
    /\ UNCHANGED <<noColorMode, renderVars, appVars>>

\* RunPlain(opts)
CallRunPlain ==
    /\ Ready
    /\ \E svc \in Services, req \in PlainRequests, valid \in BOOLEAN, colours \in BOOLEAN :
          LET opts == [Service |-> svc, Request |-> req, Width |-> 0,
                       HolidayCacheValid |-> valid]
          IN \E r \in {RunPlain(opts, noColorMode, colours)} :
             /\ call' = [op |-> "RunPlain", opts |-> opts, colours |-> colours,
                         err |-> r.err, built |-> r.built, inMain |-> FALSE]
             /\ stdout' = r.written
    /\ UNCHANGED <<noColorMode, renderVars, svcRet, model, earlier, dl>>

\* main in a new process, up to the renderer it calls: it sets the
\* no-colour flags, loads the holiday data and parses the request.  The
\* runs with -u are the action MainUpdate.
CallMain ==
    /\ Ready
    /\ ~noColorMode
    /\ \E opts \in Options, args \in MainArgs, env \in Envs :
          \E r \in {main(opts, args, env)} :
             /\ r.runs # "DownloadHolidays"
             /\ noColorMode' = opts.N
             /\ call' = [op |-> "main", opts |-> opts, args |-> args, env |-> env,
                         runs |-> r.runs, svc |-> r.svc, req |-> r.req,
                         cacheValid |-> r.cacheValid, exit |-> r.exit]
    /\ UNCHANGED <<renderVars, appVars>>

\* render.RunPlain(...), called by main; flags and env are the command
\* line's flags and the environment of the process.
MainRunPlain ==
    /\ call.op = "main"
    /\ call.runs = "RunPlain"
    /\ \E colours \in BOOLEAN :
          LET opts == [Service |-> call.svc, Request |-> call.req, Width |-> 0,
                       HolidayCacheValid |-> call.cacheValid]
          IN \E r \in {RunPlain(opts, noColorMode, colours)} :
             /\ call' = [op |-> "RunPlain", opts |-> opts, colours |-> colours,
                         err |-> r.err, built |-> r.built, inMain |-> TRUE,
                         flags |-> call.opts, env |-> call.env]
             /\ stdout' = r.written
    /\ UNCHANGED <<noColorMode, renderVars, svcRet, model, earlier, dl>>

\* tui.Run(service, req, cacheValid), called by main: the session starts.
Run ==
    /\ call.op = "main"
    /\ call.runs = "Run"
    /\ call' = [op |-> "Run", svc |-> call.svc, cacheValid |-> call.cacheValid]
    /\ model' = newModel(call.req, call.cacheValid)
    /\ UNCHANGED <<noColorMode, renderVars, svcRet, stdout, earlier, dl>>

\* The keys that may be pressed: in a dialog, a text is typed only while
\* the field holds fewer than MaxTyped characters.
KeysNow ==
    IF model.inputMode = "inputNone" THEN NamedKeys \cup {Runes(Key(120))}
    ELSE {msg \in TypedKeys : msg.Type = "KeyRunes" => Len(model.input) < MaxTyped}

\* model.Update(tea.KeyMsg): the program ends when it quits, else the
\* screen is to be drawn again.
KeyMsg ==
    /\ call.op = "Run"
    /\ \E msg \in KeysNow :
          \E r \in {UpdateKey(model, msg, call.svc.now)} :
             IF r.quit
             THEN /\ call' = [op |-> "none"]
                  /\ model' = NoModel
                  /\ noColorMode' = FALSE
             ELSE /\ r.m.request = model.request \/ InReach(r.m.request)
                        \/ model.inputMode # "inputNone"
                  /\ model' = r.m
                  /\ UNCHANGED <<call, noColorMode>>
    /\ stdout' = <<>>
    /\ UNCHANGED <<renderVars, svcRet, earlier, dl>>

\* model.Update(tea.WindowSizeMsg)
WindowSizeMsg ==
    /\ call.op = "Run"
    /\ \E width \in Widths :
          /\ width # model.width
          /\ model' = UpdateSize(model, width)
    /\ stdout' = <<>>
    /\ UNCHANGED <<noColorMode, call, renderVars, svcRet, earlier, dl>>

\* The runtime draws model.View() on the terminal, whose colour profile
\* has colours or not.  Both packages' no-colour flags are what main set.
\* The frames drawn are those of the sessions whose text field is empty.
Draw ==
    /\ call.op = "Run"
    /\ stdout = <<>>
    /\ model.input = <<>>
    /\ \E colours \in BOOLEAN :
          stdout' = View(model, call.svc, noColorMode, noColorMode, colours)
    /\ UNCHANGED <<noColorMode, call, renderVars, svcRet, model, earlier, dl>>

\* A call returns, or the process of main ends.
AppReturn ==
    /\ call.op \notin {"none", "Run"}
    /\ ~(call.op = "main" /\ call.runs # "none")
    /\ call' = [op |-> "none"]
    /\ noColorMode' = IF call.op = "main" \/ (call.op = "RunPlain" /\ call.inMain)
                      THEN FALSE ELSE noColorMode
    /\ ret' = <<>>
    /\ svcRet' = NoResult
    /\ stdout' = <<>>
    /\ UNCHANGED <<maxWidth, locals, model, earlier, dl>>

AppNext ==
    \/ SetNoColor
    \/ CallMonth
    \/ CallYear
    \/ CallGetHolidayForDate
    \/ CallNormalize
    \/ CallParseRequest
    \/ CallRunPlain
    \/ CallMain
    \/ MainRunPlain
    \/ Run
    \/ KeyMsg
    \/ WindowSizeMsg
    \/ Draw
    \/ AppReturn

AppSpec == Init /\ [][AppNext]_vars

----------------------------------------------------------------------------
(* Repeated calls of the rendering engine.  The variable earlier remembers *)
(* one call of BuildBlocks, applyColors or Layout, with its result and the *)
(* no-colour flag it ran under, for the comparison with a later call.      *)

\* The calls that are made and repeated: BuildBlocks for a month with lunar
\* labels (today the 1st, the 11th or no day of it), applyColors for the text
\* " 1 \n 1 " and a directive of each kind for day 1, Layout for the sample
\* blocks.
PureCalls ==
    {[op |-> "BuildBlocks",
      views |-> <<MonthViewOf(sh, t, <<>>, [lunarFirst |-> 28, solarDay |-> 4,
                                           monthAlias |-> <<21313, 26376>>])>>,
      colours |-> c] : sh \in MonthShapes, t \in TodaySets, c \in BOOLEAN}
    \cup {[op |-> "applyColors", output |-> <<SP, Digit(1), SP, NL, SP, Digit(1), SP>>,
           highlights |-> h] : h \in {d \in DirectiveSets : DOMAIN d = {1}}}
    \cup {[op |-> "Layout", blocks |-> b, width |-> 0] : b \in SeqsUpTo(SampleBlocks, 1)}

\* What the call returns when the result of the remembered call is handed out
\* once: a later call of the same function finds it taken.
ResultOfTaken(c, noColor) ==
    IF earlier.call.op = c.op THEN <<>>
    ELSE CASE c.op = "BuildBlocks" -> BuildBlocks(c.views, noColor, c.colours)
           [] c.op = "applyColors" -> applyColors(c.output, c.highlights, noColor)
           [] c.op = "Layout" -> Layout(c.blocks, c.width)

\* What the call returns under the no-colour flag.
ResultOf(c, noColor) ==
    CASE c.op = "BuildBlocks" -> BuildBlocks(c.views, noColor, c.colours)
      [] c.op = "applyColors" -> applyColors(c.output, c.highlights, noColor)
      [] c.op = "Layout" -> Layout(c.blocks, c.width)

\* BuildBlocks(views), applyColors(output, highlights) or Layout(blocks, width)
PureCall ==
    /\ Ready
    /\ \E c \in PureCalls :
          /\ call' = c
          /\ ret' = ResultOf(c, noColorMode)
    /\ UNCHANGED <<noColorMode, maxWidth, locals>>
    /\ UNCHANGED appVars

\* The call returns and is remembered with its result, once.
Remember ==
    /\ call.op \in {"BuildBlocks", "applyColors", "Layout"}
    /\ earlier = NoEarlier
    /\ earlier' = [call |-> call, ret |-> ret, noColor |-> noColorMode]
    /\ call' = [op |-> "none"]
    /\ ret' = <<>>
    /\ maxWidth' = 0
    /\ locals' = NoLocals
    /\ UNCHANGED <<noColorMode, svcRet, model, stdout, dl>>

PureNext ==
    \/ SetNoColor
    \/ PureCall
    \/ CallHelpLine
    \/ Remember
    \/ Return

PureSpec == Init /\ [][PureNext]_vars

----------------------------------------------------------------------------
(* Properties of the colour annotation *)

StatusColors == {holidayStart, workdayStart, todayStart}

\* A coloured span of text s: <<p, start>> where the status colour start
\* stands at position p.
Spans(s) ==
    {sp \in Positions(s, ESC) \X StatusColors : OccursAt(s, sp[2], sp[1])}

\* The position of the first ESC of s at or after j (Len(s) + 1 if none).
NextEsc(s, j) ==
    CHOOSE q \in j..(Len(s) + 1) :
        /\ q = Len(s) + 1 \/ s[q] = ESC
        /\ \A r \in j..(q - 1) : s[r] # ESC

SpanFrom(sp) == sp[1] + Len(sp[2])
SpanText(s, sp) == SubSeq(s, SpanFrom(sp), NextEsc(s, SpanFrom(sp)) - 1)
SpanClosed(s, sp) == OccursAt(s, colorEnd, NextEsc(s, SpanFrom(sp)))

IsNumeral(t) == t # <<>> /\ \A i \in 1..Len(t) : t[i] \in DIGIT0..DIGIT9

\* Whether the span is a token of its own: white space or a column separator
\* before its colour start and after its colour end.
Standalone(s, sp) ==
    LET after == NextEsc(s, SpanFrom(sp)) + Len(colorEnd)
    IN /\ sp[1] >= 2
       /\ s[sp[1] - 1] \in WhiteSpace \cup {BAR}
       /\ after <= Len(s)
       /\ s[after] \in WhiteSpace \cup {BAR}

\* The spans of s that colour the numeral of day n.
NumeralSpans(s, n) == {sp \in Spans(s) : SpanText(s, sp) = DayStr(n)}

\* A state in which BuildBlocks has built and annotated a month table with
\* colouring on.
Annotated == call.op = "BuildBlocks" /\ call.views # <<>> /\ ~noColorMode

\* C1: in a rendered month table applyColors colours the numeral token of
\* each directive's day, once, as a token of its own (never digits of a
\* longer numeral), and the numeral of no other day.
C1_OnlyDirectiveNumerals ==
    Annotated =>
        LET out == locals.output
            h == locals.highlights
        IN /\ \A n \in DOMAIN h :
                 /\ Cardinality(NumeralSpans(out, n)) = 1
                 /\ \A sp \in NumeralSpans(out, n) :
                       SpanClosed(out, sp) /\ Standalone(out, sp)
           /\ \A sp \in Spans(out) :
                 IsNumeral(SpanText(out, sp)) =>
                     \E n \in DOMAIN h : SpanText(out, sp) = DayStr(n)
           /\ Cardinality({sp \in Spans(out) : IsNumeral(SpanText(out, sp))})
                 = Cardinality(DOMAIN h)

\* Days 1 and 11 are in the table and day 1 alone has a directive: one
\* numeral is coloured, the "1" of day 1.
C1_Witness ==
    /\ Annotated
    /\ DOMAIN locals.highlights = {1}
    /\ Cardinality({sp \in Spans(locals.output) :
                       IsNumeral(SpanText(locals.output, sp))}) = 1
    /\ NumeralSpans(locals.output, 1) # {}
    /\ Contains(locals.tableView, <<SP>> \o DayStr(11) \o <<SP>>)

\* The status colour of a day by the rule of precedence: the holiday record
\* decides when there is one, today only when there is none.
StatusColor(d) ==
    CASE d.HolidayInfo = "holiday" -> holidayStart
      [] d.HolidayInfo = "workday" -> workdayStart
      [] d.HolidayInfo = "nil" /\ d.IsToday -> todayStart
      [] OTHER -> <<>>

LabelText(d) == IF SecondaryLabel(d) = <<>> THEN <<SP, SP>> ELSE SecondaryLabel(d)

InMonthDays(view) ==
    {view.Weeks[c[1]][c[2]] : c \in {x \in Cells(view) : view.Weeks[x[1]][x[2]].InMonth}}

\* C2: the numeral and the label of an in-month day with a holiday record
\* carry the holiday or the workday colour as the record says, also when the
\* day is today; the today colour is on the numeral and label of a day that
\* is today without a record, and nowhere else; a day without status is not
\* coloured, and no numeral is coloured twice.
C2_HolidayOverToday ==
    Annotated =>
        LET out == locals.output
            days == InMonthDays(call.views[1])
        IN /\ \A d \in days :
                 LET spans == NumeralSpans(out, d.Day)
                 IN IF StatusColor(d) = <<>> THEN spans = {}
                    ELSE /\ Cardinality(spans) = 1
                         /\ \A sp \in spans :
                               /\ sp[2] = StatusColor(d)
                               /\ \E lb \in Spans(out) :
                                     /\ lb[1] > sp[1]
                                     /\ lb[2] = StatusColor(d)
                                     /\ SpanText(out, lb) = LabelText(d)
           /\ \A col \in StatusColors :
                 Cardinality({sp \in Spans(out) : sp[2] = col})
                    = 2 * Cardinality({d \in days : StatusColor(d) = col})

\* A day that is today and has a holiday record, its numeral in the holiday
\* colour.
C2_Witness ==
    /\ Annotated
    /\ \E d \in InMonthDays(call.views[1]) :
          /\ d.IsToday /\ d.HolidayInfo = "holiday"
          /\ \E sp \in NumeralSpans(locals.output, d.Day) : sp[2] = holidayStart
    /\ \A sp \in Spans(locals.output) : sp[2] # todayStart

\* Whether text out is text in with control sequences put in and nothing
\* else changed, as far as the columns go: the same text once the control
\* sequences are removed, the same number of lines, the same StringWidth of
\* every line.
SameColumns(in, out) ==
    LET li == SplitLines(in)
        lo == SplitLines(out)
    IN /\ stripANSI(out) = stripANSI(in)
       /\ Len(lo) = Len(li)
       /\ \A k \in 1..Len(li) : StringWidth(lo[k]) = StringWidth(li[k])

\* C3 as stated: the output of applyColors without its control sequences is
\* the input.
C3_StripGivesInput ==
    /\ call.op = "applyColors" => stripANSI(ret) = call.output
    /\ (call.op = "BuildBlocks" /\ call.views # <<>>) =>
           stripANSI(locals.output) = locals.tableView

\* C3 (amended): the output of applyColors without its control sequences is
\* the input without the control sequences it held already (the input itself
\* when it held none); the number of lines and the StringWidth of every line
\* are those of the input.
C3_StripPreserved ==
    /\ call.op = "applyColors" =>
           /\ SameColumns(call.output, ret)
           /\ AnsiMatches(call.output) = {} => stripANSI(ret) = call.output
    /\ (call.op = "BuildBlocks" /\ call.views # <<>>) =>
           SameColumns(locals.tableView, locals.output)

\* A table whose border and header lipgloss has coloured, annotated with the
\* colour of a directive.
C3_Witness ==
    /\ Annotated
    /\ AnsiMatches(locals.tableView) # {}
    /\ DOMAIN locals.highlights # {}
    /\ Len(locals.output) > Len(locals.tableView)
    /\ SameColumns(locals.tableView, locals.output)

HasMarkup(text) == Positions(text, ESC) # {}

\* C10: while noColorMode is set applyColors returns its input for every set
\* of directives, and the title of a month block, HelpLine and ColorLegend
\* are the plain texts without control sequences; while it is not set the
\* directives of a table are coloured again, and so are the title, the help
\* line and the legend when the terminal has colours.
C10_NoColorIsPlain ==
    /\ noColorMode =>
          /\ call.op = "applyColors" => ret = call.output
          /\ (call.op = "BuildBlocks" /\ call.views # <<>>) =>
                /\ locals.output = locals.tableView
                /\ ret[1].Lines[1] = call.views[1].Title
                /\ ~HasMarkup(ret[1].Lines[1])
          /\ call.op = "HelpLine" => (ret = helpText /\ ~HasMarkup(ret))
          /\ call.op = "ColorLegend" => (ret = legend /\ ~HasMarkup(ret))
    /\ ~noColorMode =>
          /\ (call.op = "BuildBlocks" /\ call.views # <<>>) =>
                /\ DOMAIN locals.highlights # {} =>
                      /\ Spans(locals.output) # {}
                      /\ locals.output # locals.tableView
                /\ call.colours => OccursAt(ret[1].Lines[1], titleStart, 1)
          /\ (call.op = "HelpLine" /\ call.colours) =>
                ret = helpStart \o helpText \o colorEnd
          /\ (call.op = "ColorLegend" /\ call.colours) => HasMarkup(ret)

\* A table with a directive built while noColorMode is set: nothing of it is
\* coloured.
C10_Witness ==
    /\ noColorMode
    /\ call.op = "BuildBlocks" /\ call.views # <<>>
    /\ DOMAIN locals.highlights # {}
    /\ locals.output = locals.tableView
    /\ Spans(locals.output) = {}

----------------------------------------------------------------------------
(* Properties of the block composer *)

RECURSIVE LinesBefore(_, _)
\* The number of lines of the composition that precede block i: the lines
\* of the blocks before it and one empty line after each of them.
LinesBefore(blocks, i) ==
    IF i = 1 THEN 0
    ELSE LinesBefore(blocks, i - 1) + Len(blocks[i - 1].Lines) + 1

\* The lines of the composition by position: line k of block i stands at
\* LinesBefore(blocks, i) + k, and the other positions hold an empty line.
Composed(blocks) ==
    LET n == Len(blocks)
        total == LinesBefore(blocks, n) + Len(blocks[n].Lines)
        owner(p) == {ik \in (1..n) \X (1..total) :
                        /\ ik[2] <= Len(blocks[ik[1]].Lines)
                        /\ p = LinesBefore(blocks, ik[1]) + ik[2]}
    IN [p \in 1..total |->
           IF owner(p) = {} THEN <<>>
           ELSE LET ik == CHOOSE x \in owner(p) : TRUE
                IN blocks[ik[1]].Lines[ik[2]]]

----------------------------------------------------------------------------
(* Properties of the text-width measurement *)

\* Whether the insertion point after the first p characters of s lies
\* strictly inside a control sequence of s.
InsideCtrl(s, p) ==
    \E i \in AnsiMatches(s) : i <= p /\ p < AnsiMatchEnd(s, i)

\* C4 as stated: StringWidth is the same after a well-formed control
\* sequence is inserted at any position of any text.
C4_InsertAnywhere ==
    call.op = "StringWidth" =>
        \A p \in 0..Len(call.s), c \in CtrlSeqs :
            StringWidth(Insert(call.s, p, c)) = maxWidth

\* C4 (amended): StringWidth is the same after a well-formed control sequence
\* is inserted at any position that is not inside a control sequence the text
\* already holds, and a text made only of control sequences has width 0.
C4_InsertInvariant ==
    call.op = "StringWidth" =>
        /\ \A p \in 0..Len(call.s), c \in CtrlSeqs :
              ~InsideCtrl(call.s, p) =>
                  StringWidth(Insert(call.s, p, c)) = maxWidth
        /\ stripANSI(call.s) = <<>> => maxWidth = 0

\* A text with a control sequence between a narrow and a wide character.
C4_Witness ==
    /\ call.op = "StringWidth"
    /\ call.s = <<LOWER_M>> \o colorEnd \o <<ZHONG>>
    /\ maxWidth = 3

IsASCII(c) == c <= MaxASCII

\* Ideographs, kana, Hangul and the full-width forms: the scripts of
\* double-width glyphs.
IsWideScript(c) ==
    \/ c >= 4352 /\ c <= 4447
    \/ c >= 11904 /\ c <= 42191
    \/ c >= 44032 /\ c <= 55203
    \/ c >= 63744 /\ c <= 64255
    \/ c >= 65280 /\ c <= 65376

Count(line, P(_)) == Cardinality({i \in 1..Len(line) : P(line[i])})

\* Whether the GBK encoder accepts the whole line.
Encodable(line) == \A i \in 1..Len(line) : gbkBytes(line[i]) # 0

PlainText(s) ==
    /\ AnsiMatches(s) = {}
    /\ \A i \in 1..Len(s) : IsASCII(s[i]) \/ IsWideScript(s[i])

\* The largest f(line) over the lines of s.
MaxOfLines(s, f(_)) ==
    LET lines == SplitLines(s)
    IN MaxOver([k \in 1..Len(lines) |-> f(lines[k])], 1)

C5_Cols(line) == Count(line, IsASCII) + 2 * Count(line, IsWideScript)

\* C5 as stated: for a text of ASCII and wide-script characters without
\* control sequences, StringWidth is the largest, over the lines, of the
\* number of ASCII characters plus twice the number of wide characters.
C5_WidthOfPlainText ==
    (call.op = "StringWidth" /\ PlainText(call.s)) =>
        maxWidth = MaxOfLines(call.s, C5_Cols)

C6_Cols(line) ==
    LET clean == stripANSI(line)
        narrow(c) == c <= 255
        wide(c) == c > 255
    IN Count(clean, narrow) + 2 * Count(clean, wide)

\* C6 as stated: on every line StringWidth counts each code point up to
\* U+00FF as 1 column and every other code point as 2 columns.
C6_Latin1Narrow ==
    call.op = "StringWidth" => maxWidth = MaxOfLines(call.s, C6_Cols)

C6_ColsAmended(line) ==
    LET clean == stripANSI(line)
        narrow(c) == \/ IsASCII(c) /\ (Encodable(clean) \/ c # CR)
                     \/ c = EURO /\ Encodable(clean)
        wide(c) == ~IsASCII(c) /\ ~(c = EURO /\ Encodable(clean))
    IN Count(clean, narrow) + 2 * Count(clean, wide)

\* C6 (amended): on every line StringWidth counts each ASCII code point as 1
\* column and each code point above U+007F, the Latin-1 code points of
\* U+0080..U+00FF like the wide scripts, as 2 columns, except that the euro
\* sign counts 1 on a line the encoder accepts and that a carriage return
\* counts 0 on a line on which the encoder fails.
C6_Latin1Wide ==
    call.op = "StringWidth" => maxWidth = MaxOfLines(call.s, C6_ColsAmended)

\* A line on which the encoder fails, with a Latin-1 letter of GBK beside the
\* Latin-1 letter that GBK lacks.
C6_Witness ==
    /\ call.op = "StringWidth"
    /\ call.s = <<E_ACUTE, Y_DIAERESIS, LOWER_M>>
    /\ maxWidth = 5

\* C7: StringWidth(PadRight(s, w)) = max(StringWidth(s), w) for every text,
\* of one line or of several.
C7_PadRightWidth ==
    call.op = "PadRight" =>
        StringWidth(ret) = Max(StringWidth(call.s), call.width)

\* C8: PadRight is idempotent, and returns s when StringWidth(s) >= w.
C8_PadRightIdempotent ==
    call.op = "PadRight" =>
        /\ PadRight(ret, call.width) = ret
        /\ StringWidth(call.s) >= call.width => ret = call.s

----------------------------------------------------------------------------
(* Properties of the calendar service and of the program *)

Supported(year) == year >= MinSupportedYear /\ year <= MaxSupportedYear

\* The text has none of the corners that open a month's table.
NoTable(text) == \A i \in 1..Len(text) : text[i] # BOX_TL

\* C11: Service.Month returns ErrYearOutOfRange and no view for every year
\* below 1900 or above 3000, and ErrInvalidMonth and no view for every month
\* outside 1..12 of a supported year; Service.Year returns ErrYearOutOfRange
\* and no views for such years; RunPlain and the interactive renderCalendar
\* return that error without calling BuildBlocks, and nothing of a month's
\* table is written or drawn.
C11_UnsupportedYearIsAnError ==
    /\ call.op = "Month" =>
          /\ ~Supported(call.year) =>
                svcRet = [views |-> <<NoView>>, err |-> "ErrYearOutOfRange"]
          /\ Supported(call.year) /\ call.month \notin 1..12 =>
                svcRet = [views |-> <<NoView>>, err |-> "ErrInvalidMonth"]
    /\ call.op = "Year" /\ ~Supported(call.year) =>
          svcRet = [views |-> <<>>, err |-> "ErrYearOutOfRange"]
    /\ call.op = "RunPlain" /\ ~Supported(Normalize(call.opts.Request).Year) =>
          /\ call.err = "ErrYearOutOfRange"
          /\ ~call.built
          /\ stdout = <<>>
    /\ call.op = "Run" /\ model.inputMode = "inputNone"
          /\ ~Supported(model.request.Year) =>
          /\ \A colours \in BOOLEAN :
                renderCalendar(model, call.svc, noColorMode, colours)
                    = [body |-> <<>>, err |-> "ErrYearOutOfRange", built |-> FALSE]
          /\ NoTable(stdout)

\* The interactive session has moved from December 3000 to January 3001 and
\* the screen is drawn.
C11_Witness ==
    /\ call.op = "Run"
    /\ model.inputMode = "inputNone"
    /\ model.request.Year = MaxSupportedYear + 1
    /\ stdout # <<>>
    /\ NoTable(stdout)

\* The cells of a view in reading order.
CellCount(view) == 7 * Len(view.Weeks)
CellAt(view, k) == view.Weeks[((k - 1) \div 7) + 1][((k - 1) % 7) + 1]

\* The weeks of a view make the calendar of a month: weeks of 7 days from a
\* Sunday on, consecutive dates, each day of the month once and in the month,
\* every other cell outside it.
CompleteWeeks(view, year, month) ==
    LET n == CellCount(view)
        date(k) == CellAt(view, k).Date
        ofMonth(k) == date(k).y = year /\ date(k).m = month
    IN /\ \A w \in 1..Len(view.Weeks) : Len(view.Weeks[w]) = 7
       /\ n > 0
       /\ Weekday(date(1)) = 0
       /\ \A k \in 1..(n - 1) :
             DayNumber(date(k + 1).y, date(k + 1).m, date(k + 1).d)
                = DayNumber(date(k).y, date(k).m, date(k).d) + 1
       /\ \A d \in 1..DaysIn(year, month) :
             Cardinality({k \in 1..n : ofMonth(k) /\ date(k).d = d
                                        /\ CellAt(view, k).InMonth}) = 1
       /\ \A k \in 1..n : CellAt(view, k).InMonth <=> ofMonth(k)

SameDate(a, b) == a.y = b.y /\ a.m = b.m /\ a.d = b.d

\* The cells of a view that are flagged IsToday.
TodayCells(view) == {k \in 1..CellCount(view) : CellAt(view, k).IsToday}

\* C13: a cell is flagged IsToday exactly when its date is the date of the
\* service's clock, so at most one cell of a month view is flagged; when that
\* cell is an in-month day d without holiday record and colour is enabled,
\* the numeral of d is wrapped in the today colour in the rendered month, and
\* no other numeral is.
C13_OneToday ==
    /\ call.op = "Month" /\ svcRet.err = "nil" =>
          LET view == svcRet.views[1]
          IN /\ \A k \in 1..CellCount(view) :
                   CellAt(view, k).IsToday
                      <=> SameDate(CellAt(view, k).Date, call.svc.now)
             /\ Cardinality(TodayCells(view)) <= 1
    /\ call.op = "RunPlain" /\ call.err = "nil" /\ ~noColorMode
          /\ call.opts.Request.Mode = "ModeMonth" =>
          LET req == Normalize(call.opts.Request)
              view == Month(req.Year, req.Month, call.opts.Service).view
          IN \A k \in TodayCells(view) :
                LET d == CellAt(view, k)
                IN d.InMonth /\ d.HolidayInfo = "nil" =>
                      /\ Cardinality(NumeralSpans(stdout, d.Day)) = 1
                      /\ \A sp \in Spans(stdout) :
                            sp[2] = todayStart /\ IsNumeral(SpanText(stdout, sp))
                               => SpanText(stdout, sp) = DayStr(d.Day)
                      /\ \A sp \in NumeralSpans(stdout, d.Day) :
                            sp[2] = todayStart /\ SpanClosed(stdout, sp)

\* The in-month cells of a view that have a holiday record or are today.
StatusCells(view) ==
    {k \in 1..CellCount(view) :
        /\ CellAt(view, k).InMonth
        /\ CellAt(view, k).HolidayInfo # "nil" \/ CellAt(view, k).IsToday}

\* The view RunPlain has rendered for a month.
PlainView ==
    LET req == Normalize(call.opts.Request)
    IN Month(req.Year, req.Month, call.opts.Service).view

PlainMonth ==
    call.op = "RunPlain" /\ call.err = "nil" /\ call.opts.Request.Mode = "ModeMonth"

\* C14: there is a highlight directive for a day number exactly when a day
\* of that number is in the current month and has a holiday record or is
\* today, so a day outside the month has none even when it is today or has a
\* record; GetHolidayForDate returns no record when the data is nil, the year
\* is missing or the date is missing; a day without record that is not today
\* is rendered without colour markers, and a month without directive has no
\* status colour at all.
C14_DirectivesInMonthOnly ==
    /\ call.op = "Month" /\ svcRet.err = "nil" =>
          LET view == svcRet.views[1]
          IN /\ DOMAIN Highlights(view)
                   = {CellAt(view, k).Day : k \in StatusCells(view)}
             /\ \A k \in 1..CellCount(view) :
                   LET d == CellAt(view, k)
                   IN d.HolidayInfo
                         = GetHolidayForDate(call.svc.holidayData,
                                             d.Date.y, d.Date.m, d.Date.d)
    /\ call.op = "GetHolidayForDate" =>
          LET known == ~call.data.isNil /\ Itoa(call.year) \in DOMAIN call.data.years
              dateStr == Itoa02(call.month) \o <<HYPHEN>> \o Itoa02(call.day)
          IN /\ call.info \in {"nil", "holiday", "workday"}
             /\ call.data.isNil => call.info = "nil"
             /\ ~known => call.info = "nil"
             /\ known /\ dateStr \notin DOMAIN call.data.years[Itoa(call.year)]
                   => call.info = "nil"
             /\ known /\ dateStr \in DOMAIN call.data.years[Itoa(call.year)]
                   => call.info # "nil"
    /\ PlainMonth /\ ~noColorMode =>
          LET view == PlainView
              status == {CellAt(view, k).Day : k \in StatusCells(view)}
          IN /\ \A n \in 1..31 : n \notin status => NumeralSpans(stdout, n) = {}
             /\ status = {} => Spans(stdout) = {}

\* November 2025 printed on December 3 with the holiday data of 2025: the
\* grid holds today and the holiday of October 31 outside the month; the
\* numerals of November 1 and 18 are coloured, those of 3 and 31 are not.
C14_Witness ==
    /\ PlainMonth /\ ~noColorMode
    /\ \E k \in 1..CellCount(PlainView) :
          LET d == CellAt(PlainView, k) IN ~d.InMonth /\ d.IsToday /\ d.Day = 3
    /\ \E k \in 1..CellCount(PlainView) :
          LET d == CellAt(PlainView, k)
          IN ~d.InMonth /\ d.HolidayInfo = "holiday" /\ d.Day = 31
    /\ NumeralSpans(stdout, 1) # {}
    /\ NumeralSpans(stdout, 18) # {}
    /\ NumeralSpans(stdout, 3) = {}
    /\ NumeralSpans(stdout, 31) = {}

\* A later call with the arguments of the remembered call has its result.
Repeated == call.op # "none" /\ earlier # NoEarlier /\ earlier.call = call

NavKeys ==
    {<<107, -1>>, <<91, -1>>, <<106, 1>>, <<93, 1>>,
     <<75, -12>>, <<123, -12>>, <<74, 12>>, <<125, 12>>}

\* The request after the key of code point c, pressed with no dialog open.
AfterKey(m, c) == UpdateKey(m, Runes(Key(c)), call.svc.now).m

\* C16: in the interactive session the request's Month is in 1..12 after any
\* sequence of keys; with no dialog open each of the keys k/[, j/], K/{, J/}
\* changes Year*12+Month by exactly -1, +1, -12, +12 and leaves the Month in
\* 1..12, so that next-month followed by previous-month gives the same
\* request; Normalize maps any month value into 1..12 and preserves
\* Year*12+Month and the mode.
C16_Navigation ==
    /\ call.op = "Run" => model.request.Month \in 1..12
    /\ call.op = "Run" /\ model.inputMode = "inputNone" =>
          /\ \A key \in NavKeys :
                LET r == AfterKey(model, key[1]).request
                IN /\ r.Month \in 1..12
                   /\ YM(r) = YM(model.request) + key[2]
                   /\ r.Mode = model.request.Mode
          /\ \A next \in {106, 93}, prev \in {107, 91} :
                /\ AfterKey(AfterKey(model, next), prev).request = model.request
                /\ AfterKey(AfterKey(model, prev), next).request = model.request
    /\ call.op = "Normalize" =>
          /\ call.req.Month \in 1..12
          /\ YM(call.req) = YM(call.r)
          /\ call.req.Mode = call.r.Mode

\* The session shows December 2025, from where next-month leads to January
\* 2026.
C16_Witness ==
    /\ call.op = "Run"
    /\ model.inputMode = "inputNone"
    /\ model.request = [Year |-> 2025, Month |-> 12, Mode |-> "ModeMonth"]
    /\ AfterKey(model, 106).request = [Year |-> 2026, Month |-> 1, Mode |-> "ModeMonth"]

DialogOpen == call.op = "Run" /\ model.inputMode # "inputNone"

\* C17: while a year or month dialog is open no key but an Enter that closes
\* it changes the request, so that the request is the one the dialog was
\* opened with until then; the navigation keys and '.' are put into the text
\* field; Esc closes the dialog and clears the status message, and leaves
\* Year, Month and Mode as they were when the dialog was opened.
C17_DialogKeepsRequest ==
    [][DialogOpen /\ call'.op = "Run" =>
          /\ model'.inputMode # "inputNone" => model'.request = model.request
          /\ \A c \in {107, 91, 106, 93, 75, 123, 74, 125, 46} :
                handleInputKey(model, Runes(Key(c)))
                   = [m |-> [model EXCEPT !.input = inputUpdate(@, Key(c))],
                      quit |-> FALSE]
          /\ handleInputKey(model, [Type |-> "KeyEsc", Runes |-> <<>>])
                = [m |-> [model EXCEPT !.inputMode = "inputNone", !.statusMsg = <<>>],
                   quit |-> FALSE]]_vars

\* The numbers written in the texts that are typed into the dialogs: "2026",
\* "3000 12", "3000 13", " 7 " and "13"; no number in "k" and ".".
NumbersTyped(text) ==
    CASE text = <<50, 48, 50, 54>> -> <<2026>>
      [] text = <<51, 48, 48, 48, 32, 49, 50>> -> <<3000, 12>>
      [] text = <<51, 48, 48, 48, 32, 49, 51>> -> <<3000, 13>>
      [] text = <<32, 55, 32>> -> <<7>>
      [] text = <<49, 51>> -> <<13>>
      [] OTHER -> <<>>

\* The model after Enter.
AfterEnter(m) == handleInputKey(m, [Type |-> "KeyEnter", Runes |-> <<>>]).m

Accepted(m, year, month) ==
    /\ m.request = [Year |-> year, Month |-> month, Mode |-> "ModeMonth"]
    /\ m.inputMode = "inputNone"
    /\ m.statusMsg = <<>>

\* C18: Enter in the year dialog with the input "Y" sets the year Y and keeps
\* the month, with the input "Y M", 1 <= M <= 12, it sets the year Y and the
\* month M; Enter in the month dialog with a number of 1..12 sets the month
\* and keeps the year.  In each of these cases the dialog closes, Mode is
\* ModeMonth and the status message is empty.
C18_EnterAccepted ==
    DialogOpen =>
        LET nums == NumbersTyped(model.input)
            after == AfterEnter(model)
        IN /\ model.inputMode = "inputYear" /\ Len(nums) = 1 =>
                 Accepted(after, nums[1], model.request.Month)
           /\ model.inputMode = "inputYear" /\ Len(nums) = 2 /\ nums[2] \in 1..12 =>
                 Accepted(after, nums[1], nums[2])
           /\ model.inputMode = "inputMonth" /\ Len(nums) = 1 /\ nums[1] \in 1..12 =>
                 Accepted(after, model.request.Year, nums[1])

\* Enter on the empty field of the year dialog was refused with a message,
\* then " 7 " was typed and accepted: the year is 7, the month is kept, the
\* message is gone.
C18_Witness ==
    /\ call.op = "Run"
    /\ Accepted(model, 7, 11)
    /\ model.input = <<32, 55, 32>>

\* The numbers that the arguments of the command line write: none for "x",
\* "12a" and "".
ArgNumber(a) ==
    CASE a = <<57>> -> <<9>>
      [] a = <<49, 57, 56, 51>> -> <<1983>>
      [] a = <<50, 48, 49, 50>> -> <<2012>>
      [] a = <<49, 50>> -> <<12>>
      [] a = <<49, 51>> -> <<13>>
      [] a = <<48>> -> <<0>>
      [] a = <<51, 48, 48, 48>> -> <<3000>>
      [] a = <<51, 48, 48, 49>> -> <<3001>>
      [] a = <<PLUS, 53>> -> <<5>>
      [] a = <<HYPHEN, 51>> -> <<-3>>
      [] OTHER -> <<>>

\* C19: parseRequest gives the current month for no argument (the current
\* year in year mode with -y); for one argument n without -y month n of the
\* current year in month mode when 1 <= n <= 12 and else year n in year mode;
\* for one argument n with -y year n in year mode; for two arguments that
\* year and month in month mode, and an error when the month is outside
\* 1..12 or -y is set; an error for more than two arguments and for an
\* argument that is no number.
C19_UsageTable ==
    call.op = "parseRequest" =>
        LET args == call.args
            got == call.parsed
            now == call.now
            month(y, m) == got = [req |-> [Year |-> y, Month |-> m, Mode |-> "ModeMonth"],
                                  err |-> "nil"]
            year(y) == /\ got.err = "nil"
                       /\ got.req.Year = y
                       /\ got.req.Mode = "ModeYear"
            numeric == \A i \in 1..Len(args) : ArgNumber(args[i]) # <<>>
            n(i) == ArgNumber(args[i])[1]
        IN /\ Len(args) = 0 =>
                 IF call.showYear THEN year(now.y) ELSE month(now.y, now.m)
           /\ Len(args) = 1 /\ numeric /\ ~call.showYear =>
                 IF 1 <= n(1) /\ n(1) <= 12 THEN month(now.y, n(1)) ELSE year(n(1))
           /\ Len(args) = 1 /\ numeric /\ call.showYear => year(n(1))
           /\ Len(args) = 2 /\ numeric /\ ~call.showYear /\ n(2) \in 1..12 =>
                 month(n(1), n(2))
           /\ Len(args) = 2 /\ (call.showYear \/ (numeric /\ n(2) \notin 1..12)) =>
                 got.err # "nil"
           /\ Len(args) > 2 \/ (Len(args) \in 1..2 /\ ~numeric) => got.err # "nil"

\* "-y 9" is the year 9, "9" is September of this year, "1983" the year
\* 1983: here "2012 12" with -y has been rejected.
C19_Witness ==
    /\ call.op = "parseRequest"
    /\ call.showYear
    /\ call.args = <<<<50, 48, 49, 50>>, <<49, 50>>>>
    /\ call.parsed.err = "yearTakesOne"

\* The cache file is not there, or was written more than six months before
\* the clock of the environments, 2025-11-18 10:00.
CacheStale(env) ==
    \/ env.stat.err = "notexist"
    \/ /\ env.stat.err = "nil"
       /\ env.stat.modTime.y = 2025
       /\ env.stat.modTime.m * 10000 + env.stat.modTime.d * 100 + env.stat.modTime.h
             < 5 * 10000 + 18 * 100 + 10

\* The file named with -h was given and loaded.
FileLoaded(flags, env) == flags.h /\ env.file.err = "nil"

\* The sentence of the reminder ends the output: only the end of the line
\* and of the styling follows it.
ReminderAtBottom(out) ==
    LET sentence == Tail(reminder)
        n == Len(sentence)
    IN \E i \in (Len(out) - n - 5)..(Len(out) - n + 1) :
          /\ i >= 1
          /\ SubSeq(out, i, i + n - 1) = sentence
          /\ \A j \in (i + n)..Len(out) : out[j] \in {ESC, LBRACKET, 48, LOWER_M, NL}

\* A step of the program shows the reminder where main saw that it is due:
\* the plain renderer that main calls prints it below the calendar, the
\* session that main starts keeps it below every frame of the calendar.
Reminded(due) ==
    /\ (call.op = "main" /\ due) =>
          /\ (call'.op = "RunPlain" /\ stdout' # <<>>) => ReminderAtBottom(stdout')
          /\ call'.op = "Run" => ~model'.holidayCacheValid
    /\ (call.op = "Run" /\ call'.op = "Run") =>
          /\ model'.holidayCacheValid = model.holidayCacheValid
          /\ (~model'.holidayCacheValid /\ model'.inputMode = "inputNone"
                /\ stdout' # <<>>) => ReminderAtBottom(stdout')

----------------------------------------------------------------------------
(* Properties of the label colouring and of the month table *)

\* The input, the directives and the output of the call of applyColors that
\* the state shows: a direct call, or the call in buildMonthBlock.
Coloured ==
    IF call.op = "applyColors"
    THEN [in |-> call.output, h |-> call.highlights, out |-> ret]
    ELSE [in |-> locals.tableView, h |-> locals.highlights, out |-> locals.output]

ColouringDone ==
    /\ ~noColorMode
    /\ call.op = "applyColors" \/ (call.op = "BuildBlocks" /\ call.views # <<>>)

\* The occurrences of label in line with white space or a column separator
\* before and after.
Bounded(line, label) ==
    {p \in 2..(Len(line) - Len(label)) :
        /\ OccursAt(line, label, p)
        /\ line[p - 1] \in WhiteSpace \cup {BAR}
        /\ line[p + Len(label)] \in WhiteSpace \cup {BAR}}

\* The spans of line that colour the text label with colour c.
LabelSpans(line, c, label) ==
    {sp \in Spans(line) : sp[2] = c /\ SpanText(line, sp) = label /\ SpanClosed(line, sp)}

\* The lines of out that hold the coloured numeral of the directive.
NumeralLines(lo, info) ==
    {i \in 1..Len(lo) : Contains(lo[i], ColorOf(info) \o DayStr(info.day) \o colorEnd)}

\* The directives of h of colour c and label text label (the numerals of
\* which are coloured in line i of lo).
Directives(h, c, label) ==
    {n \in DOMAIN h : ColorOf(h[n]) = c /\ h[n].lunarLabel = label}
DirectivesAt(h, c, label, lo, i) ==
    {n \in Directives(h, c, label) : i \in NumeralLines(lo, h[n])}

\* C21: for each directive whose numeral was coloured, the first line that
\* holds the coloured numeral and has the label in the line after it has
\* there, in the numeral's colour, the first occurrence of the label that
\* white space or a column separator bounds; the labels of one colour and
\* text that are wrapped are at most as many as the directives of that
\* colour and text whose numeral was coloured (in the line before), and
\* every coloured span is a numeral or such a label.
C21_LabelBelowNumeral ==
    ColouringDone =>
        LET h == Coloured.h
            lo == SplitLines(Coloured.out)
            labels == {h[n].lunarLabel : n \in DOMAIN h}
            labelled(i, info) ==
                i < Len(lo) /\ (\/ Bounded(lo[i + 1], info.lunarLabel) # {}
                                \/ LabelSpans(lo[i + 1], ColorOf(info), info.lunarLabel) # {})
        IN /\ \A n \in DOMAIN h :
                 LET cand == {i \in NumeralLines(lo, h[n]) : labelled(i, h[n])}
                 IN (ColorOf(h[n]) # <<>> /\ cand # {}) =>
                       \E i \in cand :
                          /\ \A j \in cand : i <= j
                          /\ \E sp \in LabelSpans(lo[i + 1], ColorOf(h[n]), h[n].lunarLabel) :
                                /\ Standalone(lo[i + 1], sp)
                                /\ \A p \in Bounded(lo[i + 1], h[n].lunarLabel) : p > sp[1]
           /\ \A c \in StatusColors, label \in labels :
                 /\ \A k \in 1..Len(lo) :
                       Cardinality(LabelSpans(lo[k], c, label))
                          <= Cardinality(IF k = 1 THEN {}
                                         ELSE DirectivesAt(h, c, label, lo, k - 1))
                 /\ Cardinality(UNION {{<<k, sp>> : sp \in LabelSpans(lo[k], c, label)}
                                          : k \in 1..Len(lo)})
                       <= Cardinality({m \in Directives(h, c, label) :
                                          NumeralLines(lo, h[m]) # {}})
           /\ \A k \in 1..Len(lo) : \A sp \in Spans(lo[k]) :
                 \/ \E n \in DOMAIN h : sp[2] = ColorOf(h[n]) /\ SpanText(lo[k], sp) = DayStr(n)
                 \/ \E n \in DOMAIN h : sp \in LabelSpans(lo[k], ColorOf(h[n]), h[n].lunarLabel)

\* The numeral of day 1 is coloured in two lines, each with the label below
\* it, and the label is wrapped once, below the first.
C21_Witness ==
    /\ ColouringDone
    /\ call.op = "applyColors"
    /\ DOMAIN call.highlights = {1}
    /\ LET lo == SplitLines(ret)
       IN /\ Len(lo) = 4
          /\ NumeralLines(lo, call.highlights[1]) = {1, 3}
          /\ Cardinality(LabelSpans(lo[2], todayStart, <<CHU>>)) = 1
          /\ Bounded(lo[4], <<CHU>>) # {}

\* The table column (1..7) in which the span sp of a line of the bordered
\* table starts: the line is the border (2 columns for StringWidth) and a
\* column of padding on each side of 7 cells of one width.
ColumnOf(line, sp) ==
    LET cell == (lineWidth(line) - 6) \div 7
    IN (lineWidth(SubSeq(line, 1, sp[1] - 1)) - 3) \div cell + 1

\* The label span of the directive info below its numeral in line i of lo
\* starts in the column of the numeral.
SameColumn(lo, i, info) ==
    \A num \in {sp \in Spans(lo[i]) : sp[2] = ColorOf(info)
                                      /\ SpanText(lo[i], sp) = DayStr(info.day)} :
        \A lab \in LabelSpans(lo[i + 1], ColorOf(info), info.lunarLabel) :
            ColumnOf(lo[i + 1], lab) = ColumnOf(lo[i], num)

\* C22: in a month table the label that applyColors colours for a
\* directive's day is in the table column of the day's coloured numeral,
\* also when the labels of the week are the two-blank placeholder and when
\* several days of a week are highlighted.
C22_LabelInNumeralColumn ==
    (ColouringDone /\ call.op = "BuildBlocks") =>
        LET h == Coloured.h
            lo == SplitLines(Coloured.out)
        IN \A n \in DOMAIN h :
              \A i \in NumeralLines(lo, h[n]) : i < Len(lo) => SameColumn(lo, i, h[n])

\* A state in which BuildBlocks has built the table of a month.
Built == call.op = "BuildBlocks" /\ call.views # <<>>

BlankCells(row) == \A i \in 1..Len(row) : row[i] = <<>>

\* row holds the day numbers of the days of week that are in the month, or
\* row holds texts without digits for them; nothing for the other days.
NumeralsOf(row, week) ==
    /\ Len(row) = Len(week)
    /\ \A i \in 1..Len(week) :
          IF week[i].InMonth
          THEN row[i] # <<>> /\ row[i][Len(row[i])] = Digit(week[i].Day % 10)
          ELSE row[i] = <<>>
LabelsOf(row, week) ==
    /\ Len(row) = Len(week)
    /\ \A i \in 1..Len(week) :
          IF week[i].InMonth
          THEN row[i] # <<>> /\ \A j \in 1..Len(row[i]) : row[i][j] \notin DIGIT0..DIGIT9
          ELSE row[i] = <<>>

\* C23: the rows of the table of a month of n >= 1 weeks are a blank row,
\* then for each week in order its numeral row and right after it its label
\* row, a blank row between two weeks and none after the last: 3n rows, of
\* 7 cells each.
C23_RowsOfTheTable ==
    (Built /\ Len(call.views[1].Weeks) >= 1) =>
        LET weeks == call.views[1].Weeks
            n == Len(weeks)
            rows == locals.rows
        IN /\ Len(rows) = 3 * n
           /\ \A k \in 1..Len(rows) : Len(rows[k]) = 7
           /\ BlankCells(rows[1])
           /\ \A w \in 1..n :
                 /\ NumeralsOf(rows[3 * w - 1], weeks[w])
                 /\ LabelsOf(rows[3 * w], weeks[w])
                 /\ w < n => BlankCells(rows[3 * w + 1])

\* November 2025, six weeks: 18 rows, the last the labels of the week of
\* the 30th.
C23_Witness ==
    /\ Built
    /\ Len(call.views[1].Weeks) = 6
    /\ Len(locals.rows) = 18
    /\ ~BlankCells(locals.rows[18])
    /\ BlankCells(locals.rows[16])

RECURSIVE ColsFrom(_, _)
\* The columns of a cell text: one for a digit or a blank, two for a
\* character of a label.
ColsFrom(text, k) ==
    IF k > Len(text) THEN 0
    ELSE (IF text[k] < RuneSelf THEN 1 ELSE 2) + ColsFrom(text, k + 1)
Cols(text) == ColsFrom(text, 1)

\* fmt.Sprintf("%2d"): the day number with a blank before a single digit.
TwoChars(n) == <<IF n < 10 THEN SP ELSE Digit(n \div 10), Digit(n % 10)>>

\* The line of the table view that shows row k: after the header, and after
\* the top of the border when there is one.
RowLineOf(k) ==
    stripANSI(SplitLines(locals.tableView)[k + 1 + (IF noColorMode THEN 0 ELSE 1)])

\* The text of cell i of a row stands in its line where column i begins,
\* for columns of width w between a column of padding on each side.
CellStands(line, text, i, w) ==
    \E p \in 1..Len(line) :
        /\ OccursAt(line, text, p)
        /\ lineWidth(SubSeq(line, 1, p - 1))
              = (IF noColorMode THEN 0 ELSE 3) + (i - 1) * (w + 2) + 1

\* C24: the column width of a month is max(4, the largest StringWidth of
\* its numeral and label cell texts) + 2, the same for the 7 columns; the
\* numeral cell of a day outside the month is empty, that of a day of the
\* month its number right-justified in 2 characters.
C24_ColumnWidth ==
    Built =>
        LET weeks == call.views[1].Weeks
            rows == locals.rows
            texts == {rows[k][i] : k \in 1..Len(rows), i \in 1..7}
            widest == CHOOSE m \in {4} \cup {Cols(t) : t \in texts} :
                          \A t \in texts : Cols(t) <= m /\ 4 <= m
        IN /\ locals.colWidth = widest + 2
           /\ \A k \in 1..Len(rows), i \in 1..7 :
                 rows[k][i] # <<>> => CellStands(RowLineOf(k), rows[k][i], i, locals.colWidth)
           /\ \A k \in 1..Len(rows) :
                 lineWidth(RowLineOf(k))
                    = 7 * (locals.colWidth + 2) + (IF noColorMode THEN 0 ELSE 6)
           /\ \A w \in 1..Len(weeks), i \in 1..7 :
                 rows[3 * w - 1][i] = IF weeks[w][i].InMonth
                                      THEN TwoChars(weeks[w][i].Day) ELSE <<>>

\* A month with the label 十一月, 6 columns wide, below the numeral "11":
\* the columns have width 8.
C24_Witness ==
    /\ Built
    /\ locals.colWidth = 8
    /\ \E k \in 2..Len(locals.rows), i \in 1..7 :
          /\ Cols(locals.rows[k][i]) = 6
          /\ locals.rows[k - 1][i] = <<Digit(1), Digit(1)>>

\* The label of a day: the solar term if the day has one, else the name of
\* the lunar month on the day 初一 when the month has a name, else the name
\* of the lunar day; two blanks when that is empty.
ExpectedLabel(d) ==
    LET chosen == CASE d.SolarTerm # <<>> -> d.SolarTerm
                    [] d.SolarTerm = <<>> /\ d.LunarDayAlias = <<CHU, 19968>>
                          /\ d.LunarMonthAlias # <<>> -> d.LunarMonthAlias
                    [] OTHER -> d.LunarDayAlias
    IN IF chosen = <<>> THEN <<SP, SP>> ELSE chosen

\* C25: the label cell of a day of the month is its solar term when it has
\* one, else the name of the lunar month when the lunar day is the first of
\* the month and the month's name is not empty, else the name of the lunar
\* day, and two blanks when that is empty; the label of the day's highlight
\* directive is the text of the day's label cell.
C25_LabelOfTheDay ==
    Built =>
        LET weeks == call.views[1].Weeks
        IN \A w \in 1..Len(weeks), i \in 1..7 :
              weeks[w][i].InMonth =>
                 /\ locals.rows[3 * w][i] = ExpectedLabel(weeks[w][i])
                 /\ weeks[w][i].Day \in DOMAIN locals.highlights =>
                       locals.highlights[weeks[w][i].Day].lunarLabel = locals.rows[3 * w][i]

\* The 11th, highlighted, is the first day of the lunar month 十一月: the
\* name of the month is its label cell and the label of its directive.
C25_Witness ==
    /\ Built
    /\ 11 \in DOMAIN locals.highlights
    /\ locals.highlights[11].lunarLabel = <<21313, 19968, 26376>>
    /\ \E w \in 1..Len(call.views[1].Weeks), i \in 1..7 :
          /\ call.views[1].Weeks[w][i].Day = 11
          /\ call.views[1].Weeks[w][i].LunarDayAlias = <<CHU, 19968>>
          /\ locals.rows[3 * w][i] = <<21313, 19968, 26376>>

----------------------------------------------------------------------------
(* Properties of the week loop and of the input dialog *)

\* C26: for a supported year and a month of 1..12 the loop of Service.Month
\* ends right after the first week that the first day of the next month or a
\* later date follows: the weeks are ceil((weekday of the 1st + days of the
\* month) / 7), between 4 and 6, and the loop ends by its own condition (a
\* Sunday on or after the first day of the next month follows the last
\* week), never by the safety check.
C26_WeeksOfTheMonth ==
    (call.op = "Month" /\ Supported(call.year) /\ call.month \in 1..12) =>
        /\ svcRet.err = "nil"
        /\ LET weeks == svcRet.views[1].Weeks
               n == Len(weeks)
               first == DayNumber(call.year, call.month, 1)
               days == DaysIn(call.year, call.month)
               dayNo(c) == DayNumber(c.Date.y, c.Date.m, c.Date.d)
           IN /\ n = (((first + 1) % 7) + days + 6) \div 7
              /\ 4 <= n /\ n <= 6
              /\ dayNo(weeks[n][7]) + 1 >= first + days
              /\ (dayNo(weeks[n][7]) + 2) % 7 = 0
              /\ dayNo(weeks[n][1]) < first + days

\* C27: when Enter in a dialog is rejected (applyInput sets a status message
\* that is not empty), Year, Month and Mode of the request are as they were
\* before Enter, and the dialog stays open.
C27_RejectedKeepsRequest ==
    [][(DialogOpen /\ call'.op = "Run" /\ model' = AfterEnter(model)
          /\ model'.statusMsg # <<>>) =>
          /\ model'.request = model.request
          /\ model'.inputMode = model.inputMode]_vars

----------------------------------------------------------------------------
(* The holiday download: DownloadHolidays, the program it runs, and the    *)
(* goroutines of startDownload.  The source holds two versions of it,      *)
(* internal/holidays/downloader.go and the one in cmd/lucal/main.go; they  *)
(* differ in how the completion is handled and in the ticker's send.       *)

Versions == {"downloader.go", "main.go"}

\* newDownloadModel: the capacities of progressCh and completeCh.
ProgressCap == 10
CompleteCap == 1

\* The bytes a download delivers, in chunks of one.
MaxBytes == 2

\* The ways of startDownload, named by what fails.
FailurePaths == {"mkdir", "request", "status", "create", "copy", "stat"}

\* completeMsg that reports a failed os.Stat as a success.
completeMsgStatOk(path) ==
    [type |-> "complete", bytes |-> 0,
     err |-> IF path \in {"success", "stat"} THEN "nil" ELSE path]

\* The downloadCompleteMsg that startDownload sends on a path.
completeMsg(path) ==
    [type |-> "complete", bytes |-> 0, err |-> IF path = "success" THEN "nil" ELSE path]

\* The downloadProgressMsg of the ticker goroutine.
progressMsg(bytes) == [type |-> "progress", bytes |-> bytes, err |-> "nil"]

keyMsg(key) == [type |-> "key", key |-> key]
DownloadKeys == {"q", "ctrl+c", "x"}

\* Update that returns no command after a progress message.
downloadUpdateNoRearm(version, m, msg) ==
    IF msg.type = "key" THEN
       IF version = "main.go" /\ m.waitingKey THEN [m |-> m, cmd |-> "Quit"]
       ELSE IF msg.key \in {"ctrl+c", "q"} THEN [m |-> m, cmd |-> "Quit"]
       ELSE [m |-> m, cmd |-> "nil"]
    ELSE IF msg.type = "complete" THEN
       IF version = "main.go"
       THEN [m |-> [m EXCEPT !.done = TRUE, !.err = msg.err, !.waitingKey = TRUE],
             cmd |-> "nil"]
       ELSE [m |-> [m EXCEPT !.done = TRUE, !.err = msg.err], cmd |-> "Quit"]
    ELSE [m |-> [m EXCEPT !.downloaded = msg.bytes], cmd |-> "nil"]

\* downloadModel.Update: the model and the command it returns ("Quit",
\* "listenProgress" or none).
downloadUpdate(version, m, msg) ==
    IF msg.type = "key" THEN
       IF version = "main.go" /\ m.waitingKey THEN [m |-> m, cmd |-> "Quit"]
       ELSE IF msg.key \in {"ctrl+c", "q"} THEN [m |-> m, cmd |-> "Quit"]
       ELSE [m |-> m, cmd |-> "nil"]
    ELSE IF msg.type = "complete" THEN
       IF version = "main.go"
       THEN [m |-> [m EXCEPT !.done = TRUE, !.err = msg.err, !.waitingKey = TRUE],
             cmd |-> "nil"]
       ELSE [m |-> [m EXCEPT !.done = TRUE, !.err = msg.err], cmd |-> "Quit"]
    ELSE [m |-> [m EXCEPT !.downloaded = msg.bytes], cmd |-> "listenProgress"]

\* What DownloadHolidays returns: the error of GetCachePath, the error of
\* p.Run, or the field err of its own variable m, the value it gave to
\* tea.NewProgram; the model that Update returned is discarded.
DownloadHolidays(pathErr, runErr, m) ==
    IF pathErr THEN "cachePath"
    ELSE IF runErr # "nil" THEN runErr
    ELSE IF m.err # "nil" THEN m.err
    ELSE "nil"

\* The goroutines run while the process lives.
Alive == dl.phase \in {"running", "ended"}

\* The environments of a run with -u: with and without a cache path.
DownloadEnvs == {e \in Envs : e.stat = Stat("nil", 11, 1, 0) /\ e.file = NotLoaded}

\* main with -u in a new process: DownloadHolidays asks for the cache
\* path, makes the model and runs the program, whose Init starts the
\* commands startDownload and listenProgress.
MainUpdate ==
    /\ Ready
    /\ ~noColorMode
    /\ dl = NoDownload
    /\ \E opts \in {o \in Options : o.u /\ ~o.y /\ ~o.n /\ ~o.h}, env \in DownloadEnvs,
          version \in Versions, runErr \in {"nil", "failed"} :
          \E r \in {main(opts, <<>>, env)} :
             /\ r.runs = "DownloadHolidays"
             /\ noColorMode' = r.noColor
             /\ call' = [op |-> "main", opts |-> opts, runs |-> r.runs,
                         noCachePath |-> env.noCachePath]
             /\ dl' = IF env.noCachePath
                      THEN [NoDownload EXCEPT !.version = version, !.phase = "ended",
                                              !.pathErr = TRUE]
                      ELSE IF runErr # "nil"
                      THEN [NoDownload EXCEPT !.version = version, !.phase = "ended",
                                              !.runErr = runErr]
                      ELSE [NoDownload EXCEPT !.version = version, !.phase = "running",
                                              !.start = "pending", !.listener = "armed"]
    /\ UNCHANGED <<renderVars, svcRet, model, stdout, earlier>>

\* startDownload up to its goroutine: os.MkdirAll fails and the command
\* itself is to send the completion, or the download goroutine starts.
\* The record worker is whoever runs the code of startDownload.
StartDownload ==
    /\ Alive
    /\ dl.start = "pending"
    /\ \E ok \in BOOLEAN :
          dl' = IF ok THEN [dl EXCEPT !.start = "returned", !.worker.pc = "request"]
                ELSE [dl EXCEPT !.start = "returned",
                                !.worker = [pc |-> "send", path |-> "mkdir"]]
    /\ UNCHANGED <<noColorMode, call, renderVars, svcRet, model, stdout, earlier>>

\* The goroutine: http.Get, the status, os.Create; then the ticker
\* goroutine starts and the copy begins.
Request ==
    /\ Alive
    /\ dl.worker.pc = "request"
    /\ \E outcome \in {"request", "status", "create", "ok"} :
          dl' = IF outcome = "ok"
                THEN [dl EXCEPT !.worker.pc = "copy", !.ticker.pc = "wait"]
                ELSE [dl EXCEPT !.worker = [pc |-> "send", path |-> outcome]]
    /\ UNCHANGED <<noColorMode, call, renderVars, svcRet, model, stdout, earlier>>

\* io.Copy reads a chunk: progressWriter.Write adds to downloaded.
Write ==
    /\ Alive
    /\ dl.worker.pc = "copy"
    /\ dl.downloaded < MaxBytes
    /\ dl' = [dl EXCEPT !.downloaded = @ + 1]
    /\ UNCHANGED <<noColorMode, call, renderVars, svcRet, model, stdout, earlier>>

\* io.Copy returns, and os.Stat after it.  (In main.go extractYearInfo
\* follows; its failure is not an error of the download.)
CopyReturns ==
    /\ Alive
    /\ dl.worker.pc = "copy"
    /\ \E outcome \in {"copy", "stat", "success"} :
          dl' = [dl EXCEPT !.worker = [pc |-> "send", path |-> outcome]]
    /\ UNCHANGED <<noColorMode, call, renderVars, svcRet, model, stdout, earlier>>

\* m.completeCh <- downloadCompleteMsg{...}; return.  The send waits for
\* room in the channel.
SendComplete ==
    /\ Alive
    /\ dl.worker.pc = "send"
    /\ Len(dl.completeCh) < CompleteCap
    /\ dl' = [dl EXCEPT !.completeCh = Append(@, completeMsg(dl.worker.path)),
                        !.sent = @ + 1, !.worker.pc = "returned"]
    /\ UNCHANGED <<noColorMode, call, renderVars, svcRet, model, stdout, earlier>>

\* The ticker fires with bytes downloaded.  downloader.go goes on to a
\* send that waits; main.go sends if there is room and skips otherwise.
Tick ==
    /\ Alive
    /\ dl.ticker.pc = "wait"
    /\ dl.downloaded > 0
    /\ dl' = IF dl.version = "downloader.go"
             THEN [dl EXCEPT !.ticker = [pc |-> "send", bytes |-> dl.downloaded]]
             ELSE IF Len(dl.progressCh) < ProgressCap
             THEN [dl EXCEPT !.progressCh = Append(@, progressMsg(dl.downloaded))]
             ELSE dl
    /\ UNCHANGED <<noColorMode, call, renderVars, svcRet, model, stdout, earlier>>

\* downloader.go: m.progressCh <- downloadProgressMsg{...}.
TickerSend ==
    /\ Alive
    /\ dl.ticker.pc = "send"
    /\ Len(dl.progressCh) < ProgressCap
    /\ dl' = [dl EXCEPT !.progressCh = Append(@, progressMsg(dl.ticker.bytes)),
                        !.ticker.pc = "wait"]
    /\ UNCHANGED <<noColorMode, call, renderVars, svcRet, model, stdout, earlier>>

\* What listenProgress does to the download when it takes the message at
\* the head of the channel ch and returns it to the program.
listenProgress(ch) ==
    [dl EXCEPT ![ch] = Tail(@), !.msgs = Append(@, Head(dl[ch])), !.listener = "returned"]

\* The select of listenProgress takes a progress message.
ListenProgress ==
    /\ Alive
    /\ dl.listener = "armed"
    /\ dl.progressCh # <<>>
    /\ dl' = listenProgress("progressCh")
    /\ UNCHANGED <<noColorMode, call, renderVars, svcRet, model, stdout, earlier>>

\* The select of listenProgress takes the completion message.
ListenComplete ==
    /\ Alive
    /\ dl.listener = "armed"
    /\ dl.completeCh # <<>>
    /\ dl' = listenProgress("completeCh")
    /\ UNCHANGED <<noColorMode, call, renderVars, svcRet, model, stdout, earlier>>

\* The program hands msg to Update, keeps the model and runs the command.
Handle(msg, rest) ==
    \E r \in {downloadUpdate(dl.version, dl.m, msg)} :
       dl' = [dl EXCEPT !.m = r.m, !.msgs = rest,
                        !.listener = IF r.cmd = "listenProgress" THEN "armed" ELSE @,
                        !.phase = IF r.cmd = "Quit" THEN "ended" ELSE @]

\* The message a command returned reaches Update.
UpdateMsg ==
    /\ dl.phase = "running"
    /\ dl.msgs # <<>>
    /\ Handle(Head(dl.msgs), Tail(dl.msgs))
    /\ UNCHANGED <<noColorMode, call, renderVars, svcRet, model, stdout, earlier>>

\* A key is pressed while the program runs.
DownloadKey ==
    /\ dl.phase = "running"
    /\ \E key \in DownloadKeys : Handle(keyMsg(key), dl.msgs)
    /\ UNCHANGED <<noColorMode, call, renderVars, svcRet, model, stdout, earlier>>

\* p.Run has returned: DownloadHolidays returns to main, which prints the
\* error and exits with 1, or returns.
ReturnToMain ==
    /\ dl.phase = "ended"
    /\ \E err \in {DownloadHolidays(dl.pathErr, dl.runErr, dl.m0)} :
          dl' = [dl EXCEPT !.phase = "exited", !.result = err,
                           !.exit = IF err # "nil" THEN 1 ELSE 0]
    /\ UNCHANGED <<noColorMode, call, renderVars, svcRet, model, stdout, earlier>>

DownloadNext ==
    \/ MainUpdate
    \/ StartDownload
    \/ Request
    \/ Write
    \/ CopyReturns
    \/ SendComplete
    \/ Tick
    \/ TickerSend
    \/ ListenProgress
    \/ ListenComplete
    \/ UpdateMsg
    \/ DownloadKey
    \/ ReturnToMain

DownloadSpec == Init /\ [][DownloadNext]_vars

----------------------------------------------------------------------------
(* Properties of the holiday download *)

\* The process of lucal -u has ended.
Exited == dl.phase = "exited"

\* Update has handled a completion message that carries an error.
FailureHandled == dl.m.done /\ dl.m.err # "nil"

\* C28: when the holiday download fails, that is, when the completion
\* message handled by Update carries an error, DownloadHolidays returns an
\* error after the program has ended, and main exits with status 1.
C28_FailureIsReturned ==
    Exited /\ FailureHandled => dl.result # "nil" /\ dl.exit = 1

\* The completion messages in flight: in the channel or on their way to
\* Update.
CompletionsInFlight ==
    {dl.completeCh[i] : i \in 1..Len(dl.completeCh)}
    \cup {dl.msgs[i] : i \in {j \in 1..Len(dl.msgs) : dl.msgs[j].type = "complete"}}

\* C29: every run of startDownload sends exactly one downloadCompleteMsg
\* on completeCh, whatever the path: none before its send, one once it has
\* returned, never a second.  The message's err is non-nil exactly on the
\* failure paths (directory, request, status, file creation, copy, stat).
\* The channel has room whenever the send is reached, so the send does
\* not block the goroutine.
C29_OneCompletion ==
    /\ dl.sent <= 1
    /\ dl.worker.pc = "returned" <=> dl.sent = 1
    /\ dl.worker.pc = "send" => Len(dl.completeCh) < CompleteCap
    /\ dl.worker.pc \in {"send", "returned"} => dl.worker.path \in FailurePaths \cup {"success"}
    /\ \A msg \in CompletionsInFlight :
          dl.sent = 1 /\ (msg.err # "nil" <=> dl.worker.path \in FailurePaths)
    /\ dl.m.done => dl.sent = 1 /\ (dl.m.err # "nil" <=> dl.worker.path \in FailurePaths)

\* The completion of a failed os.Stat is in completeCh, sent while
\* progressCh was full.
C29_Witness ==
    /\ dl.worker = [pc |-> "returned", path |-> "stat"]
    /\ dl.completeCh = <<completeMsg("stat")>>
    /\ dl.completeCh[1].err # "nil"
    /\ Len(dl.progressCh) = ProgressCap

\* The download under fair scheduling: a message that a command returned
\* reaches Update, and the select of listenProgress, which chooses at
\* random among the channels that are ready, does not pass over a ready
\* completeCh for ever.  Nothing is assumed of the keys, the network or
\* the ticker.
DownloadFair ==
    /\ DownloadSpec
    /\ WF_vars(UpdateMsg)
    /\ SF_vars(ListenComplete)

Sent == dl.sent = 1
Handled == dl.m.done
Running == dl.phase = "running"

\* The send of the completion has room whatever progressCh holds.
NeverBlocked == dl.worker.pc = "send" => Len(dl.completeCh) < CompleteCap

\* Once done is true it stays true.
DoneStays == [][Handled => dl'.m.done]_vars

\* C30 as stated: under fair scheduling, once the completion message has
\* been sent the model reaches done = true; a listener is pending on the
\* channels at every moment of the program before that; the progress
\* messages neither block nor starve the completion; done stays true.
C30_CompletionIsHandled ==
    /\ Sent ~> Handled
    /\ [](Running /\ ~Handled => dl.listener = "armed")
    /\ []NeverBlocked
    /\ DoneStays

\* C30, amended: under fair scheduling, once the completion message has
\* been sent the model reaches done = true unless the user quits the
\* program first; at every moment of the program before that a listener
\* is pending on the channels or the message it returned is on its way to
\* Update, which re-arms it; the progress messages neither block nor
\* starve the completion; done stays true.
C30_CompletionIsHandledUnlessQuit ==
    /\ Sent ~> (Handled \/ ~Running)
    /\ [](Running /\ ~Handled => dl.listener = "armed" \/ dl.msgs # <<>>)
    /\ []NeverBlocked
    /\ DoneStays

\* The completion has been handled after progress messages, while the
\* program runs and progressCh is full.
C30_Witness ==
    /\ Running
    /\ Sent
    /\ Handled
    /\ dl.m.downloaded > 0
    /\ Len(dl.progressCh) = ProgressCap

====
